---- MODULE Spec2Model ----
(***************************************************************************)
(* TOON codec of n8n-nodes-toon-encode (src/src/toon-lib.ts): the encoder  *)
(* (value -> text) and the decoder (Scanner: text -> tokens, Parser:       *)
(* tokens -> value), as operators over sequences of one-character strings, *)
(* and a state machine that applies them to bounded sets of inputs.        *)
(*                                                                         *)
(* Text is a sequence of one-character strings.  A JSON value is a tuple:  *)
(*   <<"null">>, <<"bool", b>>, <<"num", m, e>> (the number m * 10^e, m    *)
(*   not a multiple of 10 unless it is 0), <<"str", text>>,                *)
(*   <<"arr", elements>>, <<"obj", <<key, value>> pairs in key order>>.    *)
(***************************************************************************)
EXTENDS Integers, Sequences, FiniteSets, TLC

Chars(s) == [i \in 1..Len(s) |-> SubSeq(s, i, i)]

----------------------------------------------------------------------------
(* JavaScript string primitives used by the library *)

WS == {" ", "\t", "\n", "\r"}
DigitChars == {"0", "1", "2", "3", "4", "5", "6", "7", "8", "9"}
LetterChars == {"a", "b", "c", "d", "e", "f", "g", "h", "i", "j", "k", "l", "m",
                "n", "o", "p", "q", "r", "s", "t", "u", "v", "w", "x", "y", "z",
                "A", "B", "C", "D", "E", "F", "G", "H", "I", "J", "K", "L", "M",
                "N", "O", "P", "Q", "R", "S", "T", "U", "V", "W", "X", "Y", "Z"}
WordChars == LetterChars \cup DigitChars \cup {"_"}

IsDigit(c) == c \in DigitChars

SetMin(S) == CHOOSE x \in S : \A y \in S : x <= y
SetMax(S) == CHOOSE x \in S : \A y \in S : x >= y

\* String.prototype.trim
Trim(s) ==
    LET I == {i \in 1..Len(s) : s[i] \notin WS}
    IN IF I = {} THEN <<>> ELSE SubSeq(s, SetMin(I), SetMax(I))

StartsWith(s, p) == Len(s) >= Len(p) /\ SubSeq(s, 1, Len(p)) = p
EndsWith(s, p) == Len(s) >= Len(p) /\ SubSeq(s, Len(s) - Len(p) + 1, Len(s)) = p
Includes(s, c) == \E i \in 1..Len(s) : s[i] = c

\* s.substring(i) and s.substring(i, j) with 0-based i, j as in JavaScript
\* (arguments are clamped to 0..length and swapped when i > j)
Clamp(i, n) == IF i < 0 THEN 0 ELSE IF i > n THEN n ELSE i
Substring(s, i, j) ==
    LET a == Clamp(i, Len(s))
        b == Clamp(j, Len(s))
    IN IF a <= b THEN SubSeq(s, a + 1, b) ELSE SubSeq(s, b + 1, a)
SubstringFrom(s, i) == Substring(s, i, Len(s))

RECURSIVE Call(_, _)

\* s.split(c) for a one-character separator c
Split(s, c) ==
    LET I == {i \in 1..Len(s) : s[i] = c}
    IN IF I = {} THEN <<s>>
       ELSE LET k == SetMin(I)
            IN <<SubSeq(s, 1, k - 1)>> \o Call("Split", <<SubSeq(s, k + 1, Len(s)), c>>)

\* parts.join(sep)
Join(parts, sep) ==
    IF Len(parts) = 0 THEN <<>>
    ELSE IF Len(parts) = 1 THEN parts[1]
    ELSE parts[1] \o sep \o Call("Join", <<Tail(parts), sep>>)

\* s.replace(/c/g, rep) for a one-character pattern c
ReplaceAll(s, c, rep) ==
    IF Len(s) = 0 THEN <<>>
    ELSE (IF s[1] = c THEN rep ELSE <<s[1]>>) \o Call("ReplaceAll", <<Tail(s), c, rep>>)

RECURSIVE Repeat(_, _)
\* s.repeat(n)
Repeat(s, n) == IF n <= 0 THEN <<>> ELSE s \o Repeat(s, n - 1)

\* index just after the run of digits of s that starts at index i (1-based)
SkipDigits(s, i) ==
    LET I == {j \in i..Len(s) : ~IsDigit(s[j])}
    IN IF I = {} THEN Len(s) + 1 ELSE SetMin(I)

\* s matches the template t position by position; "9" in t stands for \d
MatchTemplate(s, t) ==
    /\ Len(s) = Len(t)
    /\ \A i \in 1..Len(t) : IF t[i] = "9" THEN IsDigit(s[i]) ELSE s[i] = t[i]

----------------------------------------------------------------------------
(* Numbers: String(number) and Number(string) of JavaScript, for numbers    *)
(* written m * 10^e whose decimal form JavaScript prints without exponent.  *)

DigitSeq == <<"0", "1", "2", "3", "4", "5", "6", "7", "8", "9">>
DigitVal(c) == CHOOSE d \in 0..9 : DigitSeq[d + 1] = c

RECURSIVE NatToStr(_)
NatToStr(n) == IF n < 10 THEN <<DigitSeq[n + 1]>>
               ELSE NatToStr(n \div 10) \o <<DigitSeq[(n % 10) + 1]>>

RECURSIVE StrToNat(_)
StrToNat(s) == IF Len(s) = 0 THEN 0
               ELSE 10 * StrToNat(SubSeq(s, 1, Len(s) - 1)) + DigitVal(s[Len(s)])

Abs(n) == IF n < 0 THEN 0 - n ELSE n

RECURSIVE NormNum(_, _)
\* the canonical pair of m * 10^e
NormNum(m, e) == IF m = 0 THEN <<"num", 0, 0>>
                 ELSE IF m % 10 = 0 THEN NormNum(m \div 10, e + 1)
                 ELSE <<"num", m, e>>

\* String(value) for the number m * 10^e
NumToStr(m, e) ==
    LET d == NatToStr(Abs(m))
        sign == IF m < 0 THEN <<"-">> ELSE <<>>
        k == 0 - e
    IN IF m = 0 THEN <<"0">>
       ELSE IF e >= 0 THEN sign \o d \o Repeat(<<"0">>, e)
       ELSE IF Len(d) > k
            THEN sign \o SubSeq(d, 1, Len(d) - k) \o <<".">> \o SubSeq(d, Len(d) - k + 1, Len(d))
            ELSE sign \o <<"0", ".">> \o Repeat(<<"0">>, k - Len(d)) \o d

\* s has the shape -?INT(\.\d+)?([eE][+-]?\d+)? where INT is (0|[1-9]\d*) when
\* strictInt and \d+ otherwise; exps is the set of exponent letters accepted
NumShape(s, strictInt, exps) ==
    LET n == Len(s)
        i0 == IF n >= 1 /\ s[1] = "-" THEN 2 ELSE 1
        i1 == SkipDigits(s, i0)
        intOK == i1 > i0 /\ (strictInt => (s[i0] = "0" => i1 = i0 + 1))
        hasFrac == i1 <= n /\ s[i1] = "."
        i2 == IF hasFrac THEN SkipDigits(s, i1 + 1) ELSE i1
        fracOK == hasFrac => i2 > i1 + 1
        hasExp == i2 <= n /\ s[i2] \in exps
        i3 == IF hasExp /\ i2 + 1 <= n /\ s[i2 + 1] \in {"+", "-"} THEN i2 + 2 ELSE i2 + 1
        i4 == IF hasExp THEN SkipDigits(s, i3) ELSE i2
        expOK == hasExp => i4 > i3
    IN intOK /\ fracOK /\ expOK /\ i4 = n + 1

\* Number(s) for a string s of the shape above
StrToNum(s) ==
    LET n == Len(s)
        neg == n >= 1 /\ s[1] = "-"
        i0 == IF neg THEN 2 ELSE 1
        i1 == SkipDigits(s, i0)
        hasFrac == i1 <= n /\ s[i1] = "."
        i2 == IF hasFrac THEN SkipDigits(s, i1 + 1) ELSE i1
        frac == IF hasFrac THEN SubSeq(s, i1 + 1, i2 - 1) ELSE <<>>
        hasExp == i2 <= n
        expNeg == hasExp /\ s[i2 + 1] = "-"
        i3 == IF hasExp /\ s[i2 + 1] \in {"+", "-"} THEN i2 + 2 ELSE i2 + 1
        ex == IF hasExp THEN StrToNat(SubSeq(s, i3, n)) ELSE 0
        mant == StrToNat(SubSeq(s, i0, i1 - 1) \o frac)
    IN NormNum(IF neg THEN 0 - mant ELSE mant,
               (IF expNeg THEN 0 - ex ELSE ex) - Len(frac))

\* the leading digits of Number.MAX_VALUE rounded up, 1.7976931348623158e308
MaxValueDigits == Chars("17976931348623158")

RECURSIVE DigitsBelow(_, _)
\* the decimal fraction 0.d is below the decimal fraction 0.t
DigitsBelow(d, t) ==
    IF Len(t) = 0 THEN FALSE
    ELSE IF Len(d) = 0 THEN TRUE
    ELSE IF DigitVal(d[1]) # DigitVal(t[1]) THEN DigitVal(d[1]) < DigitVal(t[1])
    ELSE DigitsBelow(Tail(d), Tail(t))

\* !Number.isNaN(num) && Number.isFinite(num) for num = Number(s), s of the
\* shape above: the magnitude m * 10^e is below Number.MAX_VALUE
IsFiniteNumber(num) ==
    LET d == NatToStr(Abs(num[2]))
        magnitude == Len(d) + num[3]
    IN \/ num[2] = 0
       \/ magnitude <= 308
       \/ magnitude = 309 /\ DigitsBelow(d, MaxValueDigits)

----------------------------------------------------------------------------
(* ENCODER *)

LIST_ITEM_MARKER == <<"-">>
LIST_ITEM_PREFIX == <<"-", " ">>
COMMA == ","
DEFAULT_DELIMITER == ","
NULL_LITERAL == Chars("null")
TRUE_LITERAL == Chars("true")
FALSE_LITERAL == Chars("false")
BACKSLASH == "\\"
DOUBLE_QUOTE == "\""

Null == <<"null">>
Bool(b) == <<"bool", b>>
Num(m, e) == NormNum(m, e)
Str(s) == <<"str", s>>
Arr(elems) == <<"arr", elems>>
Obj(pairs) == <<"obj", pairs>>

isJsonPrimitive(v) == v[1] \in {"null", "bool", "num", "str"}
isJsonArray(v) == v[1] = "arr"
isJsonObject(v) == v[1] = "obj"

\* Object.keys(obj)
ObjectKeys(o) == [i \in 1..Len(o[2]) |-> o[2][i][1]]
HasKey(o, k) == \E i \in 1..Len(o[2]) : o[2][i][1] = k
\* obj[k] for a key that is present
Get(o, k) == o[2][CHOOSE i \in 1..Len(o[2]) : o[2][i][1] = k][2]

isArrayOfPrimitives(a) == \A i \in 1..Len(a[2]) : isJsonPrimitive(a[2][i])
isArrayOfArrays(a) == \A i \in 1..Len(a[2]) : isJsonArray(a[2][i])
isArrayOfObjects(a) == \A i \in 1..Len(a[2]) : isJsonObject(a[2][i])

\* escapeString without the replacement of the backslash
escapeStringQuotesOnly(value) ==
    Call("ReplaceAll", <<Call("ReplaceAll", <<Call("ReplaceAll", <<Call("ReplaceAll", <<value,
        "\"", <<BACKSLASH, DOUBLE_QUOTE>>>>),
        "\n", <<BACKSLASH, "n">>>>),
        "\r", <<BACKSLASH, "r">>>>),
        "\t", <<BACKSLASH, "t">>>>)

escapeString(value) ==
    Call("ReplaceAll", <<Call("ReplaceAll", <<Call("ReplaceAll", <<Call("ReplaceAll", <<Call("ReplaceAll", <<value,
        "\\", <<BACKSLASH, BACKSLASH>>>>),
        "\"", <<BACKSLASH, DOUBLE_QUOTE>>>>),
        "\n", <<BACKSLASH, "n">>>>),
        "\r", <<BACKSLASH, "r">>>>),
        "\t", <<BACKSLASH, "t">>>>)

isBooleanOrNullLiteral(token) ==
    token = TRUE_LITERAL \/ token = FALSE_LITERAL \/ token = NULL_LITERAL

\* /^-?\d+(?:\.\d+)?(?:e[+-]?\d+)?$/i or /^0\d+$/
isNumericLike(value) ==
    \/ Call("NumShape", <<value, FALSE, {"e", "E"}>>)
    \/ (Len(value) >= 2 /\ value[1] = "0" /\ SkipDigits(value, 2) = Len(value) + 1)

\* /^\d{4}-\d{2}-\d{2}T\d{2}:\d{2}:\d{2}(\.\d{3})?Z?$/
isISOTimestamp(value) ==
    \/ Call("MatchTemplate", <<value, Chars("9999-99-99T99:99:99")>>)
    \/ Call("MatchTemplate", <<value, Chars("9999-99-99T99:99:99Z")>>)
    \/ Call("MatchTemplate", <<value, Chars("9999-99-99T99:99:99.999")>>)
    \/ Call("MatchTemplate", <<value, Chars("9999-99-99T99:99:99.999Z")>>)

isSafeUnquotedAnyDelimiter(value, delimiter) ==
    /\ Len(value) > 0
    /\ value = Trim(value)
    /\ ~(Call("isBooleanOrNullLiteral", <<value>>) \/ Call("isNumericLike", <<value>>))
    /\ (Includes(value, ":") => Call("isISOTimestamp", <<value>>))
    /\ ~(Includes(value, "\"") \/ Includes(value, "\\"))
    /\ ~(\E i \in 1..Len(value) : value[i] \in {"[", "]", "{", "}"})
    /\ ~(\E i \in 1..Len(value) : value[i] \in {"\n", "\r", "\t"})
    /\ ~StartsWith(value, LIST_ITEM_MARKER)

isSafeUnquoted(value, delimiter) ==
    /\ Len(value) > 0
    /\ value = Trim(value)
    /\ ~(Call("isBooleanOrNullLiteral", <<value>>) \/ Call("isNumericLike", <<value>>))
    /\ (Includes(value, ":") => Call("isISOTimestamp", <<value>>))
    /\ ~(Includes(value, "\"") \/ Includes(value, "\\"))
    /\ ~(\E i \in 1..Len(value) : value[i] \in {"[", "]", "{", "}"})
    /\ ~(\E i \in 1..Len(value) : value[i] \in {"\n", "\r", "\t"})
    /\ ~Includes(value, delimiter)
    /\ ~StartsWith(value, LIST_ITEM_MARKER)

encodeStringLiteral(value, delimiter) ==
    IF Call("isSafeUnquoted", <<value, delimiter>>) THEN value
    ELSE <<DOUBLE_QUOTE>> \o Call("escapeString", <<value>>) \o <<DOUBLE_QUOTE>>

encodePrimitive(value, delimiter) ==
    CASE value[1] = "null" -> NULL_LITERAL
      [] value[1] = "bool" -> (IF value[2] THEN TRUE_LITERAL ELSE FALSE_LITERAL)
      [] value[1] = "num" -> Call("NumToStr", <<value[2], value[3]>>)
      [] value[1] = "str" -> Call("encodeStringLiteral", <<value[2], delimiter>>)

\* /^[A-Z_][\w.]*$/i
isValidUnquotedKey(key) ==
    /\ Len(key) >= 1
    /\ key[1] \in LetterChars \cup {"_"}
    /\ \A i \in 2..Len(key) : key[i] \in WordChars \cup {"."}

encodeKey(key) ==
    IF Call("isValidUnquotedKey", <<key>>) THEN key
    ELSE <<DOUBLE_QUOTE>> \o Call("escapeString", <<key>>) \o <<DOUBLE_QUOTE>>

encodeAndJoinPrimitives(values, delimiter) ==
    Call("Join", <<[i \in 1..Len(values) |-> Call("encodePrimitive", <<values[i], delimiter>>)], <<delimiter>>>>)

\* key = <<>> stands for an absent (or empty, hence falsy) key, fields = <<>>
\* for an absent field list, lengthMarker = <<>> for false
formatHeader(length, key, fields, delimiter, lengthMarker) ==
    (IF key # <<>> THEN Call("encodeKey", <<key>>) ELSE <<>>)
    \o <<"[">> \o lengthMarker \o NatToStr(length)
    \o (IF delimiter # DEFAULT_DELIMITER THEN <<delimiter>> ELSE <<>>) \o <<"]">>
    \o (IF fields # <<>>
        THEN <<"{">> \o Call("Join", <<[i \in 1..Len(fields) |-> Call("encodeKey", <<fields[i]>>)], <<delimiter>>>>) \o <<"}">>
        ELSE <<>>)
    \o <<":">>

\* LineWriter.push: one line at the given depth
push(options, depth, content) == Repeat(Repeat(<<" ">>, options.indent), depth) \o content
\* pushListItem one level deeper than asked
pushListItemDeeper(options, depth, content) ==
    Call("push", <<options, depth + 1, LIST_ITEM_PREFIX \o content>>)

pushListItem(options, depth, content) == Call("push", <<options, depth, LIST_ITEM_PREFIX \o content>>)

\* encodeInlineArrayLine without the test for an empty array: the header is
\* always followed by a space
encodeInlineArrayLineSpaced(values, delimiter, prefix, lengthMarker) ==
    Call("formatHeader", <<Len(values), prefix, <<>>, delimiter, lengthMarker>>)
    \o <<" ">> \o Call("encodeAndJoinPrimitives", <<values, delimiter>>)

encodeInlineArrayLine(values, delimiter, prefix, lengthMarker) ==
    LET header == Call("formatHeader", <<Len(values), prefix, <<>>, delimiter, lengthMarker>>)
        joinedValue == Call("encodeAndJoinPrimitives", <<values, delimiter>>)
    IN IF Len(values) = 0 THEN header ELSE header \o <<" ">> \o joinedValue

isTabularArray(rows, header) ==
    \A r \in 1..Len(rows) :
        /\ Len(ObjectKeys(rows[r])) = Len(header)
        /\ \A j \in 1..Len(header) :
              HasKey(rows[r], header[j]) /\ isJsonPrimitive(Get(rows[r], header[j]))

\* <<>> stands for undefined
extractTabularHeader(rows) ==
    IF Len(rows) = 0 THEN <<>>
    ELSE IF ~isJsonObject(rows[1]) THEN <<>>
    ELSE LET firstKeys == ObjectKeys(rows[1])
         IN IF Len(firstKeys) = 0 THEN <<>>
            ELSE IF Call("isTabularArray", <<rows, firstKeys>>) THEN firstKeys
            ELSE <<>>

writeTabularRows(rows, header, depth, options) ==
    [r \in 1..Len(rows) |->
        Call("push", <<options, depth,
             Call("encodeAndJoinPrimitives", <<[j \in 1..Len(header) |-> Get(rows[r], header[j])],
                                     options.delimiter>>)>>)]

RECURSIVE Flatten(_)
Flatten(seqs) == IF Len(seqs) = 0 THEN <<>> ELSE seqs[1] \o Flatten(Tail(seqs))

\* each encode* operator yields the lines its code pushes to the writer
encodeObject(value, depth, options) ==
    LET Pair(p) == Call("encodeKeyValuePair", <<p[1], p[2], depth, options>>)
    IN Flatten([n \in 1..Len(value[2]) |-> Pair(value[2][n])])

encodeKeyValuePair(key, value, depth, options) ==
    LET encodedKey == Call("encodeKey", <<key>>)
    IN IF isJsonPrimitive(value)
       THEN <<Call("push", <<options, depth,
                   encodedKey \o <<":", " ">> \o Call("encodePrimitive", <<value, options.delimiter>>)>>)>>
       ELSE IF isJsonArray(value) THEN Call("encodeArray", <<key, value, depth, options>>)
       ELSE IF Len(value[2]) = 0 THEN <<Call("push", <<options, depth, encodedKey \o <<":">>>>)>>
       ELSE <<Call("push", <<options, depth, encodedKey \o <<":">>>>)>>
            \o Call("encodeObject", <<value, depth + 1, options>>)

encodeArrayOfArraysAsListItems(prefix, values, depth, options) ==
    LET header == Call("formatHeader", <<Len(values), prefix, <<>>, options.delimiter, options.lengthMarker>>)
        Item(arr) == IF isArrayOfPrimitives(arr)
                     THEN <<Call("pushListItem", <<options, depth + 1,
                              Call("encodeInlineArrayLine", <<arr[2], options.delimiter, <<>>,
                                                    options.lengthMarker>>)>>)>>
                     ELSE <<>>
    IN <<Call("push", <<options, depth, header>>)>> \o Flatten([n \in 1..Len(values) |-> Item(values[n])])

encodeArrayOfObjectsAsTabular(prefix, rows, header, depth, options) ==
    <<Call("push", <<options, depth,
           Call("formatHeader", <<Len(rows), prefix, header, options.delimiter, options.lengthMarker>>)>>)>>
    \o Call("writeTabularRows", <<rows, header, depth + 1, options>>)

encodeArray(key, value, depth, options) ==
    IF Len(value[2]) = 0
    THEN <<Call("push", <<options, depth,
                Call("formatHeader", <<0, key, <<>>, options.delimiter, options.lengthMarker>>)>>)>>
    ELSE IF isArrayOfPrimitives(value)
    THEN <<Call("push", <<options, depth,
                Call("encodeInlineArrayLine", <<value[2], options.delimiter, key, options.lengthMarker>>)>>)>>
    ELSE IF isArrayOfArrays(value)
            /\ \A i \in 1..Len(value[2]) : isArrayOfPrimitives(value[2][i])
    THEN Call("encodeArrayOfArraysAsListItems", <<key, value[2], depth, options>>)
    ELSE IF isArrayOfObjects(value)
    THEN LET header == Call("extractTabularHeader", <<value[2]>>)
         IN IF header # <<>>
            THEN Call("encodeArrayOfObjectsAsTabular", <<key, value[2], header, depth, options>>)
            ELSE Call("encodeMixedArrayAsListItems", <<key, value[2], depth, options>>)
    ELSE Call("encodeMixedArrayAsListItems", <<key, value[2], depth, options>>)

encodeMixedArrayAsListItems(prefix, items, depth, options) ==
    LET header == Call("formatHeader", <<Len(items), prefix, <<>>, options.delimiter, options.lengthMarker>>)
        Item(item) == Call("encodeListItemValue", <<item, depth + 1, options>>)
    IN <<Call("push", <<options, depth, header>>)>> \o Flatten([n \in 1..Len(items) |-> Item(items[n])])

\* an array that is not an array of primitives falls through every branch
encodeListItemValue(value, depth, options) ==
    IF isJsonPrimitive(value)
    THEN <<Call("pushListItem", <<options, depth, Call("encodePrimitive", <<value, options.delimiter>>)>>)>>
    ELSE IF isJsonArray(value) /\ isArrayOfPrimitives(value)
    THEN <<Call("pushListItem", <<options, depth,
              Call("encodeInlineArrayLine", <<value[2], options.delimiter, <<>>, options.lengthMarker>>)>>)>>
    ELSE IF isJsonObject(value) THEN Call("encodeObjectAsListItem", <<value, depth, options>>)
    ELSE <<>>

encodeObjectAsListItem(obj, depth, options) ==
    LET keys == ObjectKeys(obj)
        firstKey == keys[1]
        encodedKey == Call("encodeKey", <<firstKey>>)
        firstValue == obj[2][1][2]
        lenStr == NatToStr(Len(firstValue[2]))
        ObjItem(item) == IF isJsonObject(item)
                         THEN Call("encodeObjectAsListItem", <<item, depth + 1, options>>)
                         ELSE <<>>
        AnyItem(item) == Call("encodeListItemValue", <<item, depth + 1, options>>)
        first ==
            IF isJsonPrimitive(firstValue)
            THEN <<Call("pushListItem", <<options, depth,
                     encodedKey \o <<":", " ">> \o Call("encodePrimitive", <<firstValue, options.delimiter>>)>>)>>
            ELSE IF isJsonArray(firstValue)
            THEN IF isArrayOfPrimitives(firstValue)
                 THEN <<Call("pushListItem", <<options, depth,
                          Call("encodeInlineArrayLine", <<firstValue[2], options.delimiter, firstKey,
                                                options.lengthMarker>>)>>)>>
                 ELSE IF isArrayOfObjects(firstValue)
                 THEN LET header == Call("extractTabularHeader", <<firstValue[2]>>)
                      IN IF header # <<>>
                         THEN <<Call("pushListItem", <<options, depth,
                                  Call("formatHeader", <<Len(firstValue[2]), firstKey, header,
                                               options.delimiter, options.lengthMarker>>)>>)>>
                              \o Call("writeTabularRows", <<firstValue[2], header, depth + 1, options>>)
                         ELSE <<Call("pushListItem", <<options, depth,
                                  encodedKey \o <<"[">> \o lenStr \o <<"]", ":">>>>)>>
                              \o Flatten([n \in 1..Len(firstValue[2]) |-> ObjItem(firstValue[2][n])])
                 ELSE <<Call("pushListItem", <<options, depth,
                          encodedKey \o <<"[">> \o lenStr \o <<"]", ":">>>>)>>
                      \o Flatten([n \in 1..Len(firstValue[2]) |-> AnyItem(firstValue[2][n])])
            ELSE IF Len(firstValue[2]) = 0
            THEN <<Call("pushListItem", <<options, depth, encodedKey \o <<":">>>>)>>
            ELSE <<Call("pushListItem", <<options, depth, encodedKey \o <<":">>>>)>>
                 \o Call("encodeObject", <<firstValue, depth + 2, options>>)
        Rest(p) == Call("encodeKeyValuePair", <<p[1], p[2], depth + 1, options>>)
    IN IF Len(keys) = 0 THEN <<Call("push", <<options, depth, LIST_ITEM_MARKER>>)>>
       ELSE first \o Flatten([n \in 1..Len(Tail(obj[2])) |-> Rest(Tail(obj[2])[n])])

\* LineWriter.toString of the lines pushed
encodeValue(value, options) ==
    IF isJsonPrimitive(value) THEN Call("encodePrimitive", <<value, options.delimiter>>)
    ELSE IF isJsonArray(value) THEN Call("Join", <<Call("encodeArray", <<<<>>, value, 0, options>>), <<"\n">>>>)
    ELSE Call("Join", <<Call("encodeObject", <<value, 0, options>>), <<"\n">>>>)

\* encode(input, options) for an input that is already a JSON value; indent and
\* delimiter are <<>> when left out and <<v>> when given; lengthMarker is <<>>
\* (left out or false) or <<"#">>
resolveEncodeOptions(o) ==
    [indent |-> IF o.indent = <<>> THEN 2 ELSE o.indent[1],
     delimiter |-> IF o.delimiter = <<>> THEN "," ELSE o.delimiter[1],
     lengthMarker |-> o.lengthMarker]

encode(input, options) == Call("encodeValue", <<input, resolveEncodeOptions(options)>>)

----------------------------------------------------------------------------
(* DECODER: errors *)

\* a thrown Error: its kind and the line number its message names (0 if none)
NoErr == <<>>
Err(kind, line) == <<kind, line>>
IndentErrKinds == {"tab-indent", "indent-multiple"}
CountErrKinds == {"inline-length", "row-count", "cell-count", "list-length"}

----------------------------------------------------------------------------
(* DECODER: helpers shared by Scanner and Parser (the two classes carry     *)
(* identical copies of findMainColon, splitByDelimiter, unescapeKey and     *)
(* unescapeString)                                                          *)

findMainColonFrom(str, i, inQuotes, escapeNext) ==
    IF i > Len(str) THEN -1
    ELSE IF escapeNext THEN Call("findMainColonFrom", <<str, i + 1, inQuotes, FALSE>>)
    ELSE IF str[i] = "\\" THEN Call("findMainColonFrom", <<str, i + 1, inQuotes, TRUE>>)
    ELSE IF str[i] = "\"" THEN Call("findMainColonFrom", <<str, i + 1, ~inQuotes, FALSE>>)
    ELSE IF ~inQuotes /\ str[i] = ":" THEN i - 1
    ELSE Call("findMainColonFrom", <<str, i + 1, inQuotes, FALSE>>)

\* 0-based index of the first ':' outside double quotes, or -1
findMainColon(str) == Call("findMainColonFrom", <<str, 1, FALSE, FALSE>>)

splitFrom(str, delimiter, i, current, inQuotes, escapeNext) ==
    IF i > Len(str) THEN (IF current # <<>> THEN <<current>> ELSE <<>>)
    ELSE IF escapeNext
    THEN Call("splitFrom", <<str, delimiter, i + 1, Append(current, str[i]), inQuotes, FALSE>>)
    ELSE IF str[i] = "\\"
    THEN Call("splitFrom", <<str, delimiter, i + 1, Append(current, str[i]), inQuotes, TRUE>>)
    ELSE IF str[i] = "\""
    THEN Call("splitFrom", <<str, delimiter, i + 1, Append(current, str[i]), ~inQuotes, FALSE>>)
    ELSE IF ~inQuotes /\ str[i] = delimiter
    THEN <<current>> \o Call("splitFrom", <<str, delimiter, i + 1, <<>>, inQuotes, FALSE>>)
    ELSE Call("splitFrom", <<str, delimiter, i + 1, Append(current, str[i]), inQuotes, FALSE>>)

splitByDelimiter(str, delimiter) == Call("splitFrom", <<str, delimiter, 1, <<>>, FALSE, FALSE>>)

unescapeFrom(str, i, result) ==
    IF i > Len(str) THEN [err |-> NoErr, val |-> result]
    ELSE IF str[i] = "\\"
    THEN IF i + 1 > Len(str) THEN [err |-> Err("escape", 0), val |-> <<>>]
         ELSE IF str[i + 1] = "n" THEN Call("unescapeFrom", <<str, i + 2, Append(result, "\n")>>)
         ELSE IF str[i + 1] = "r" THEN Call("unescapeFrom", <<str, i + 2, Append(result, "\r")>>)
         ELSE IF str[i + 1] = "t" THEN Call("unescapeFrom", <<str, i + 2, Append(result, "\t")>>)
         ELSE IF str[i + 1] = "\"" THEN Call("unescapeFrom", <<str, i + 2, Append(result, "\"")>>)
         ELSE IF str[i + 1] = "\\" THEN Call("unescapeFrom", <<str, i + 2, Append(result, "\\")>>)
         ELSE [err |-> Err("escape", 0), val |-> <<>>]
    ELSE Call("unescapeFrom", <<str, i + 1, Append(result, str[i])>>)

\* [err, val]: the string with its escapes undone, or the error thrown
unescapeString(str) == Call("unescapeFrom", <<str, 1, <<>>>>)

unescapeKey(key) ==
    IF StartsWith(key, <<"\"">>) /\ EndsWith(key, <<"\"">>)
    THEN Call("unescapeString", <<Substring(key, 1, Len(key) - 1)>>)
    ELSE [err |-> NoErr, val |-> key]

\* the first error of a sequence of [err, val] results, or NoErr
FirstErr(rs) ==
    LET I == {i \in 1..Len(rs) : rs[i].err # NoErr}
    IN IF I = {} THEN NoErr ELSE rs[SetMin(I)].err

\* The shared header pattern
\*   /^(?:([^[\]]+))?\[([#])?(\d+)([,\t|])?\](?:\{([^}]+)\})?:\s*(.*)$/
\* [ok, key, lengthStr, delimiterInHeader, fieldsStr, rest]: an unmatched
\* group is <<>>; rest is the last group
MatchArrayPattern(str) ==
    LET n == Len(str)
        B == {i \in 1..n : str[i] \in {"[", "]"}}
        b == IF B = {} THEN n + 1 ELSE SetMin(B)
        p == IF b + 1 <= n /\ str[b + 1] = "#" THEN b + 2 ELSE b + 1
        q == SkipDigits(str, p)
        hasDelim == q <= n /\ str[q] \in {",", "\t", "|"}
        r == IF hasDelim THEN q + 1 ELSE q
        hasBrace == r + 1 <= n /\ str[r + 1] = "{"
        C == {i \in (r + 2)..n : str[i] = "}"}
        c == IF C = {} THEN n + 1 ELSE SetMin(C)
        t == IF hasBrace THEN c + 1 ELSE r + 1
        W == {i \in (t + 1)..n : str[i] \notin WS}
        w == IF W = {} THEN n + 1 ELSE SetMin(W)
        ok == /\ b <= n /\ str[b] = "["
              /\ q > p
              /\ r <= n /\ str[r] = "]"
              /\ (hasBrace => c <= n /\ c > r + 2)
              /\ t <= n /\ str[t] = ":"
              /\ \A i \in w..n : str[i] \notin {"\n", "\r"}
    IN IF ok
       THEN [ok |-> TRUE,
             key |-> SubSeq(str, 1, b - 1),
             lengthStr |-> SubSeq(str, p, q - 1),
             delimiterInHeader |-> IF hasDelim THEN <<str[q]>> ELSE <<>>,
             fieldsStr |-> IF hasBrace THEN SubSeq(str, r + 2, c - 1) ELSE <<>>,
             rest |-> SubSeq(str, w, n)]
       ELSE [ok |-> FALSE, key |-> <<>>, lengthStr |-> <<>>, delimiterInHeader |-> <<>>,
             fieldsStr |-> <<>>, rest |-> <<>>]

\* the header object both classes build from a match: key (<<>> = undefined),
\* length, delimiter, fields (<<>> = undefined); err if a field's escape throws
HeaderInfo(m) ==
    LET delimiter == IF m.delimiterInHeader # <<>> THEN m.delimiterInHeader[1] ELSE ","
        parts == Call("splitByDelimiter", <<m.fieldsStr, delimiter>>)
        fs == [i \in 1..Len(parts) |-> Call("unescapeKey", <<Trim(parts[i])>>)]
    IN [err |-> IF m.fieldsStr # <<>> THEN Call("FirstErr", <<fs>>) ELSE NoErr,
        key |-> Trim(m.key),
        length |-> StrToNat(m.lengthStr),
        delimiter |-> delimiter,
        fields |-> IF m.fieldsStr # <<>> THEN [i \in 1..Len(fs) |-> fs[i].val] ELSE <<>>]

----------------------------------------------------------------------------
(* DECODER: Scanner *)

\* new Scanner(input, options).options: an option is <<>> when left out and
\* <<v>> when given as v
scannerOptions(o) ==
    [strict |-> IF o.strict = <<>> THEN TRUE ELSE o.strict[1],
     indent |-> IF o.indent = <<>> THEN 2 ELSE o.indent[1]]

NoArrayInfo ==
    [has |-> FALSE, key |-> <<>>, length |-> 0, fields |-> <<>>, delimiter |-> ",",
     inlineValues |-> <<>>]

Token(type, value, indent, line, hadTabIndent, arrayInfo) ==
    [type |-> type, value |-> value, indent |-> indent, line |-> line,
     hadTabIndent |-> hadTabIndent, arrayInfo |-> arrayInfo]

\* Scanner.getIndent: [err, count, hadTabIndent]
getIndentTabsOnly(line, lineNum, options) ==
    LET N == {i \in 1..Len(line) : line[i] \notin {" ", "\t"}}
        stop == IF N = {} THEN Len(line) + 1 ELSE SetMin(N)
        count == Cardinality({i \in 1..(stop - 1) : line[i] = " "})
        hadTab == \E i \in 1..(stop - 1) : line[i] = "\t"
    IN IF options.strict /\ hadTab
       THEN [err |-> Err("tab-indent", lineNum), count |-> 0, hadTabIndent |-> FALSE]
       ELSE [err |-> NoErr, count |-> count, hadTabIndent |-> hadTab]

\* getIndent that reports tab indentation for every line of a lenient scan
getIndentTabbed(line, lineNum, options) ==
    LET N == {i \in 1..Len(line) : line[i] \notin {" ", "\t"}}
        stop == IF N = {} THEN Len(line) + 1 ELSE SetMin(N)
        count == Cardinality({i \in 1..(stop - 1) : line[i] = " "})
        hadTab == \E i \in 1..(stop - 1) : line[i] = "\t"
    IN IF options.strict /\ hadTab
       THEN [err |-> Err("tab-indent", lineNum), count |-> 0, hadTabIndent |-> FALSE]
       ELSE IF options.strict /\ count > 0
               /\ (options.indent = 0 \/ count % options.indent # 0)
       THEN [err |-> Err("indent-multiple", lineNum), count |-> 0, hadTabIndent |-> FALSE]
       ELSE [err |-> NoErr, count |-> count, hadTabIndent |-> ~options.strict]

getIndent(line, lineNum, options) ==
    LET N == {i \in 1..Len(line) : line[i] \notin {" ", "\t"}}
        stop == IF N = {} THEN Len(line) + 1 ELSE SetMin(N)
        count == Cardinality({i \in 1..(stop - 1) : line[i] = " "})
        hadTab == \E i \in 1..(stop - 1) : line[i] = "\t"
    IN IF options.strict /\ hadTab
       THEN [err |-> Err("tab-indent", lineNum), count |-> 0, hadTabIndent |-> FALSE]
       ELSE IF options.strict /\ count > 0
               /\ (options.indent = 0 \/ count % options.indent # 0)
       THEN [err |-> Err("indent-multiple", lineNum), count |-> 0, hadTabIndent |-> FALSE]
       ELSE [err |-> NoErr, count |-> count, hadTabIndent |-> hadTab]

\* Scanner.parseArrayHeader: [err, has, key, length, fields, delimiter, inlineValues]
parseArrayHeader(str) ==
    LET m == Call("MatchArrayPattern", <<str>>)
        h == HeaderInfo(m)
    IN IF ~m.ok THEN [err |-> NoErr] @@ NoArrayInfo
       ELSE [err |-> h.err, has |-> TRUE, key |-> h.key, length |-> h.length,
             fields |-> h.fields, delimiter |-> h.delimiter,
             inlineValues |-> Trim(m.rest)]

ArrayInfoOf(h) ==
    [has |-> h.has, key |-> h.key, length |-> h.length, fields |-> h.fields,
     delimiter |-> h.delimiter, inlineValues |-> h.inlineValues]

\* /^[\d,\s]+$/
OnlyDigitsCommasSpaces(key) ==
    Len(key) > 0 /\ \A i \in 1..Len(key) : key[i] \in DigitChars \cup {","} \cup WS

\* the tokens one non-blank line contributes: [err, tokens]
scanLine(trimmed, indent, i, hadTabIndent, header) ==
    LET colonIndex == Call("findMainColon", <<trimmed>>)
        key == Trim(Substring(trimmed, 0, colonIndex))
        value == Trim(SubstringFrom(trimmed, colonIndex + 1))
        isQuotedKey == StartsWith(key, <<"\"">>) /\ EndsWith(key, <<"\"">>)
        looksLikeKeyValue ==
            isQuotedKey \/ (~Includes(key, ",") /\ Len(key) < 100 /\ ~Call("OnlyDigitsCommasSpaces", <<key>>))
        k == Call("unescapeKey", <<key>>)
        T(type, v, info) == Token(type, v, indent, i, hadTabIndent, info)
    IN IF StartsWith(trimmed, <<"-", " ">>)
       THEN [err |-> NoErr, tokens |-> <<T("LIST_ITEM", SubstringFrom(trimmed, 2), NoArrayInfo)>>]
       ELSE IF header.has
       THEN [err |-> NoErr, tokens |-> <<T("ARRAY_HEADER", trimmed, ArrayInfoOf(header))>>]
       ELSE IF Includes(trimmed, ":") /\ colonIndex # -1 /\ looksLikeKeyValue
       THEN IF k.err # NoErr THEN [err |-> k.err, tokens |-> <<>>]
            ELSE [err |-> NoErr,
                  tokens |-> <<T("KEY", k.val, NoArrayInfo), T("COLON", <<":">>, NoArrayInfo)>>
                             \o (IF value # <<>> THEN <<T("VALUE", value, NoArrayInfo)>> ELSE <<>>)]
       ELSE [err |-> NoErr, tokens |-> <<T("VALUE", trimmed, NoArrayInfo)>>]

\* the strict-mode check of a blank line at index i (0-based) inside an array
blankLineCheck(lines, i, arrayIndent, options) ==
    LET N == {j \in (i + 2)..Len(lines) : Trim(lines[j]) # <<>>}
        next == IF N = {} THEN 0 ELSE SetMin(N)
        nextIndent == Call("getIndent", <<lines[next], next, options>>)
    IN IF next = 0 THEN NoErr
       ELSE IF nextIndent.err # NoErr THEN nextIndent.err
       ELSE IF nextIndent.count > arrayIndent THEN Err("blank-line", 0)
       ELSE NoErr

\* the loop of Scanner.scan from line index i (0-based): [err, tokens]
scanFrom(lines, i, insideArray, arrayIndent, tokens, options) ==
    IF i >= Len(lines)
    THEN [err |-> NoErr,
          tokens |-> Append(tokens, Token("EOF", <<>>, 0, Len(lines), FALSE, NoArrayInfo))]
    ELSE LET line == lines[i + 1]
             blank == IF options.strict /\ insideArray
                      THEN Call("blankLineCheck", <<lines, i, arrayIndent, options>>)
                      ELSE NoErr
             indentInfo == Call("getIndent", <<line, i + 1, options>>)
             trimmed == Trim(line)
             arrayCheck == Call("parseArrayHeader", <<trimmed>>)
             inside == IF arrayCheck.has THEN TRUE
                       ELSE IF insideArray /\ indentInfo.count <= arrayIndent THEN FALSE
                       ELSE insideArray
             aIndent == IF arrayCheck.has THEN indentInfo.count
                        ELSE IF insideArray /\ indentInfo.count <= arrayIndent THEN -1
                        ELSE arrayIndent
             out == Call("scanLine", <<trimmed, indentInfo.count, i, indentInfo.hadTabIndent, arrayCheck>>)
         IN IF Trim(line) = <<>>
            THEN IF blank # NoErr THEN [err |-> blank, tokens |-> <<>>]
                 ELSE Call("scanFrom", <<lines, i + 1, insideArray, arrayIndent, tokens, options>>)
            ELSE IF indentInfo.err # NoErr THEN [err |-> indentInfo.err, tokens |-> <<>>]
            ELSE IF arrayCheck.err # NoErr THEN [err |-> arrayCheck.err, tokens |-> <<>>]
            ELSE IF out.err # NoErr THEN [err |-> out.err, tokens |-> <<>>]
            ELSE Call("scanFrom", <<lines, i + 1, inside, aIndent, tokens \o out.tokens, options>>)

\* new Scanner(input, options).scan()
scan(input, options) ==
    Call("scanFrom", <<Call("Split", <<input, "\n">>), 0, FALSE, -1, <<>>, scannerOptions(options)>>)

----------------------------------------------------------------------------
(* DECODER: Parser *)

\* tokens[position] for a position past the end
Undefined == Token("undefined", <<>>, -1, -1, FALSE, NoArrayInfo)

\* Parser.current (position is 0-based)
current(tokens, position) ==
    IF position >= 0 /\ position < Len(tokens) THEN tokens[position + 1] ELSE Undefined

IsEnd(token) == token.type \in {"undefined", "EOF"}

\* what a parsing method leaves behind: the error thrown (or NoErr), the value
\* returned, and the parser's tokens and position afterwards
Ret(err, val, tokens, position) ==
    [err |-> err, val |-> val, tokens |-> tokens, position |-> position]
Throw(err) == Ret(err, Null, <<>>, 0)

\* result[key] = value on an object's <<key, value>> pairs
Put(pairs, key, value) ==
    IF \E i \in 1..Len(pairs) : pairs[i][1] = key
    THEN [i \in 1..Len(pairs) |-> IF pairs[i][1] = key THEN <<key, value>> ELSE pairs[i]]
    ELSE Append(pairs, <<key, value>>)

\* Object.assign(target, source) on pairs
Assign(target, source) ==
    IF Len(source) = 0 THEN target
    ELSE Call("Assign", <<Put(target, source[1][1], source[1][2]), Tail(source)>>)

\* Parser.parsePrimitive: [err, val]
parsePrimitiveUnchecked(value) ==
    LET trimmed == Trim(value)
        u == Call("unescapeString", <<Substring(trimmed, 1, Len(trimmed) - 1)>>)
    IN IF trimmed = Chars("null") THEN [err |-> NoErr, val |-> Null]
       ELSE IF trimmed = Chars("true") THEN [err |-> NoErr, val |-> Bool(TRUE)]
       ELSE IF trimmed = Chars("false") THEN [err |-> NoErr, val |-> Bool(FALSE)]
       ELSE IF Call("NumShape", <<trimmed, TRUE, {"e", "E"}>>) /\ IsFiniteNumber(Call("StrToNum", <<trimmed>>))
       THEN [err |-> NoErr, val |-> Call("StrToNum", <<trimmed>>)]
       ELSE IF StartsWith(trimmed, <<"\"">>) /\ EndsWith(trimmed, <<"\"">>) /\ Len(trimmed) >= 2
       THEN IF u.err # NoErr THEN [err |-> u.err, val |-> Null]
            ELSE [err |-> NoErr, val |-> Str(u.val)]
       ELSE [err |-> NoErr, val |-> Str(trimmed)]

\* parsePrimitive with \d+ for the integer part of a number
parsePrimitiveLeadingZeros(value) ==
    LET trimmed == Trim(value)
        u == Call("unescapeString", <<Substring(trimmed, 1, Len(trimmed) - 1)>>)
    IN IF trimmed = Chars("null") THEN [err |-> NoErr, val |-> Null]
       ELSE IF trimmed = Chars("true") THEN [err |-> NoErr, val |-> Bool(TRUE)]
       ELSE IF trimmed = Chars("false") THEN [err |-> NoErr, val |-> Bool(FALSE)]
       ELSE IF Call("NumShape", <<trimmed, FALSE, {"e", "E"}>>) /\ IsFiniteNumber(Call("StrToNum", <<trimmed>>))
       THEN [err |-> NoErr, val |-> Call("StrToNum", <<trimmed>>)]
       ELSE IF StartsWith(trimmed, <<"\"">>)
       THEN IF ~EndsWith(trimmed, <<"\"">>) \/ Len(trimmed) < 2
            THEN [err |-> Err("unterminated", 0), val |-> Null]
            ELSE IF u.err # NoErr THEN [err |-> u.err, val |-> Null]
            ELSE [err |-> NoErr, val |-> Str(u.val)]
       ELSE [err |-> NoErr, val |-> Str(trimmed)]

parsePrimitive(value) ==
    LET trimmed == Trim(value)
        u == Call("unescapeString", <<Substring(trimmed, 1, Len(trimmed) - 1)>>)
    IN IF trimmed = Chars("null") THEN [err |-> NoErr, val |-> Null]
       ELSE IF trimmed = Chars("true") THEN [err |-> NoErr, val |-> Bool(TRUE)]
       ELSE IF trimmed = Chars("false") THEN [err |-> NoErr, val |-> Bool(FALSE)]
       ELSE IF Call("NumShape", <<trimmed, TRUE, {"e", "E"}>>) /\ IsFiniteNumber(Call("StrToNum", <<trimmed>>))
       THEN [err |-> NoErr, val |-> Call("StrToNum", <<trimmed>>)]
       ELSE IF StartsWith(trimmed, <<"\"">>)
       THEN IF ~EndsWith(trimmed, <<"\"">>) \/ Len(trimmed) < 2
            THEN [err |-> Err("unterminated", 0), val |-> Null]
            ELSE IF u.err # NoErr THEN [err |-> u.err, val |-> Null]
            ELSE [err |-> NoErr, val |-> Str(u.val)]
       ELSE [err |-> NoErr, val |-> Str(trimmed)]

\* values.map((v) => this.parsePrimitive(v.trim())): [err, val]
parsePrimitives(values) ==
    LET rs == [i \in 1..Len(values) |-> Call("parsePrimitive", <<Trim(values[i])>>)]
    IN [err |-> Call("FirstErr", <<rs>>), val |-> [i \in 1..Len(rs) |-> rs[i].val]]

\* Parser.parseArrayHeaderString: [err, has, key, length, fields, delimiter, valuesStr]
parseArrayHeaderString(str) ==
    LET m == Call("MatchArrayPattern", <<str>>)
        h == HeaderInfo(m)
    IN IF ~m.ok
       THEN [err |-> NoErr, has |-> FALSE, key |-> <<>>, length |-> 0, fields |-> <<>>,
             delimiter |-> ",", valuesStr |-> <<>>]
       ELSE [err |-> h.err, has |-> TRUE, key |-> h.key, length |-> h.length,
             fields |-> h.fields, delimiter |-> h.delimiter, valuesStr |-> m.rest]

\* Parser.parseInlineArray: [err, val]
parseInlineArray(info) ==
    LET values == Call("splitByDelimiter", <<info.valuesStr, info.delimiter>>)
        ps == Call("parsePrimitives", <<values>>)
    IN IF Len(info.fields) > 0 THEN [err |-> NoErr, val |-> Arr(<<>>)]
       ELSE [err |-> ps.err, val |-> Arr(ps.val)]

\* the number of rows the tabular branch of parseArray counts ahead
countRows(tokens, tempPos, arrayIndent) ==
    LET token == current(tokens, tempPos)
    IN IF IsEnd(token) \/ token.indent <= arrayIndent \/ token.type # "VALUE" THEN 0
       ELSE 1 + Call("countRows", <<tokens, tempPos + 1, arrayIndent>>)

\* the carve-out never applies: every list is validated
noComplexNesting(items) == FALSE

\* items.some(item => isJsonObject(item) && Object.values(item).some(v => isJsonArray(v)))
hasComplexNesting(items) ==
    \E i \in 1..Len(items) :
        isJsonObject(items[i]) /\ \E j \in 1..Len(items[i][2]) : isJsonArray(items[i][2][j][2])


\* The next iteration of a loop of the parser: the iteration that ends began at
\* position before and leaves the parser at position after.  An iteration that
\* does not move the position forward finds the parser as it was and repeats
\* without end; that outcome is the error kind "diverges".
Iterate(f, args, before, after) ==
    IF after > before THEN Call(f, args) ELSE Throw(Err("diverges", 0))

\* The part of Parser.parse and Parser.parseObject after KEY and COLON are
\* consumed: token is the KEY token, compact is the first conjunct of
\* isCompactNested.  val is the value bound to the key; bound is FALSE when no
\* branch assigns result[key].
parseKeyValue(tokens, position, token, compact) ==
    LET nextToken == current(tokens, position)
        defined == nextToken.type # "undefined"
        isCompactNested == compact /\ defined /\ nextToken.indent = 0
                           /\ nextToken.type = "KEY" /\ ~nextToken.hadTabIndent
        isTabSibling == defined /\ nextToken.type = "KEY" /\ nextToken.hadTabIndent
                        /\ nextToken.indent = token.indent
        nextIndent == IF defined THEN nextToken.indent ELSE token.indent + 1
        bind(r) == r @@ [bound |-> TRUE]
        prim == Call("parsePrimitive", <<nextToken.value>>)
    IN IF defined /\ nextToken.type = "VALUE" /\ nextToken.indent > token.indent
       THEN bind(Throw(Err("missing-colon", 0)))
       ELSE IF isTabSibling THEN bind(Ret(NoErr, Obj(<<>>), tokens, position))
       ELSE IF ~defined \/ nextToken.type = "EOF" \/ nextToken.indent > token.indent
               \/ isCompactNested
       THEN IF nextToken.type = "ARRAY_HEADER" THEN bind(Call("parseArray", <<tokens, position>>))
            ELSE IF nextToken.type = "LIST_ITEM"
            THEN bind(Call("parseListItems", <<tokens, position, nextIndent>>))
            ELSE IF nextToken.type = "KEY" THEN bind(Call("parseObject", <<tokens, position, nextIndent>>))
            ELSE bind(Ret(NoErr, Obj(<<>>), tokens, position))
       ELSE IF nextToken.type = "VALUE"
       THEN bind(Ret(prim.err, prim.val, tokens, position + 1))
       ELSE IF nextToken.type = "ARRAY_HEADER" THEN bind(Call("parseArray", <<tokens, position>>))
       ELSE Ret(NoErr, Null, tokens, position) @@ [bound |-> FALSE]

parseObjectLoop(tokens, position, baseIndent, result) ==
    LET token == current(tokens, position)
        colonToken == current(tokens, position + 1)
        kv == Call("parseKeyValue", <<tokens, position + 2, token, baseIndent = 0>>)
        arr == Call("parseArray", <<tokens, position>>)
    IN IF IsEnd(token) THEN Ret(NoErr, Obj(result), tokens, position)
       ELSE IF token.indent < baseIndent THEN Ret(NoErr, Obj(result), tokens, position)
       ELSE IF token.indent > baseIndent /\ baseIndent > 0
       THEN Ret(NoErr, Obj(result), tokens, position)
       ELSE IF token.type = "KEY"
       THEN IF colonToken.type # "COLON" THEN Throw(Err("missing-colon", 0))
            ELSE IF kv.err # NoErr THEN Throw(kv.err)
            ELSE Iterate("parseObjectLoop", <<kv.tokens, kv.position, baseIndent,
                                 IF kv.bound THEN Put(result, token.value, kv.val) ELSE result>>,
                         position, kv.position)
       ELSE IF token.type = "ARRAY_HEADER" /\ token.arrayInfo.key # <<>>
       THEN IF arr.err # NoErr THEN Throw(arr.err)
            ELSE Iterate("parseObjectLoop", <<arr.tokens, arr.position, baseIndent,
                                 Put(result, token.arrayInfo.key, arr.val)>>,
                         position, arr.position)
       ELSE Ret(NoErr, Obj(result), tokens, position)

\* Parser.parseObject
parseObject(tokens, position, baseIndent) == Call("parseObjectLoop", <<tokens, position, baseIndent, <<>>>>)

\* the for loop over the rows of a tabular array: i rows are still to be read
parseRows(tokens, position, info, i, result) ==
    LET rowToken == current(tokens, position)
        values == Call("splitByDelimiter", <<rowToken.value, info.delimiter>>)
        cells == [j \in 1..Len(info.fields) |->
                     Call("parsePrimitive", <<IF j <= Len(values) THEN Trim(values[j]) ELSE <<>>>>)]
        obj == Obj([j \in 1..Len(info.fields) |-> <<info.fields[j], cells[j].val>>])
    IN IF i = 0 THEN Ret(NoErr, Arr(result), tokens, position)
       ELSE IF IsEnd(rowToken) \/ rowToken.indent <= info.arrayIndent
       THEN Ret(NoErr, Arr(result), tokens, position)
       ELSE IF rowToken.type = "VALUE"
       THEN IF Len(values) # Len(info.fields) THEN Throw(Err("cell-count", 0))
            ELSE IF Call("FirstErr", <<cells>>) # NoErr THEN Throw(Call("FirstErr", <<cells>>))
            ELSE Iterate("parseRows", <<tokens, position + 1, info, i - 1,
                           Append(result, Obj(Call("Assign", <<<<>>, obj[2]>>)))>>,
                         position, position + 1)
       ELSE Ret(NoErr, Arr(result), tokens, position)

\* Parser.parseArray
parseArray(tokens, position) ==
    LET headerToken == current(tokens, position)
        info == headerToken.arrayInfo
        arrayIndent == headerToken.indent
        after == position + 1
        inline == Call("splitByDelimiter", <<info.inlineValues, info.delimiter>>)
        inlinePs == Call("parsePrimitives", <<inline>>)
        rowCount == Call("countRows", <<tokens, after, arrayIndent>>)
        items == Call("parseListItems", <<tokens, after, arrayIndent + 1>>)
        valueToken == current(tokens, after)
        values == Call("splitByDelimiter", <<valueToken.value, info.delimiter>>)
        valuePs == Call("parsePrimitives", <<values>>)
    IN IF ~info.has THEN Ret(NoErr, Arr(<<>>), tokens, after)
       ELSE IF info.length = 0 THEN Ret(NoErr, Arr(<<>>), tokens, after)
       ELSE IF info.inlineValues # <<>>
       THEN IF Len(inline) # info.length THEN Throw(Err("inline-length", 0))
            ELSE Ret(inlinePs.err, Arr(inlinePs.val), tokens, after)
       ELSE IF Len(info.fields) > 0
       THEN IF rowCount # info.length THEN Throw(Err("row-count", 0))
            ELSE Call("parseRows", <<tokens, after, info @@ [arrayIndent |-> arrayIndent],
                           info.length, <<>>>>)
       ELSE IF current(tokens, after).type = "LIST_ITEM"
       THEN IF items.err # NoErr THEN Throw(items.err)
            ELSE IF ~Call("hasComplexNesting", <<items.val[2]>>) /\ Len(items.val[2]) # info.length
            THEN Throw(Err("list-length", 0))
            ELSE items
       ELSE IF valueToken.type = "VALUE"
       THEN IF valueToken.indent > arrayIndent
            THEN IF Len(values) # info.length THEN Throw(Err("inline-length", 0))
                 ELSE Ret(valuePs.err, Arr(valuePs.val), tokens, after + 1)
            ELSE Ret(NoErr, Arr(<<>>), tokens, after)
       ELSE Ret(NoErr, Arr(<<>>), tokens, after)

\* "Check for additional properties on following lines": the properties merged
\* into obj when the next token is a deeper KEY or ARRAY_HEADER
additionalProperties(tokens, position, itemIndent, obj) ==
    LET nextToken == current(tokens, position)
        nested == Call("parseObject", <<tokens, position, nextToken.indent>>)
    IN IF nextToken.type # "undefined" /\ nextToken.indent > itemIndent
          /\ nextToken.type \in {"KEY", "ARRAY_HEADER"}
       THEN IF nested.err # NoErr THEN Throw(nested.err)
            ELSE Ret(NoErr, Obj(Call("Assign", <<obj, nested.val[2]>>)), nested.tokens, nested.position)
       ELSE Ret(NoErr, Obj(obj), tokens, position)

\* the synthetic ARRAY_HEADER token a list item writes over its own token
\* before it steps the position back and calls parseArray
injectHeader(tokens, position, token, value, key, match) ==
    [tokens EXCEPT ![position] =
        Token("ARRAY_HEADER", value, token.indent, token.line, FALSE,
              [has |-> TRUE, key |-> key, length |-> match.length, fields |-> match.fields,
               delimiter |-> match.delimiter, inlineValues |-> <<>>])]

\* one iteration of the loop of parseListItems, after the LIST_ITEM token at
\* position - 1 is consumed; val is the item pushed
parseListItem(tokens, position, token) ==
    LET content == token.value
        itemIndent == token.indent
        fullArrayMatch == Call("parseArrayHeaderString", <<content>>)
        fullArray == Call("parseInlineArray", <<fullArrayMatch>>)
        colonIndex == Call("findMainColon", <<content>>)
        key == Trim(Substring(content, 0, colonIndex))
        value == Trim(SubstringFrom(content, colonIndex + 1))
        keyArrayMatch == Call("parseArrayHeaderString", <<key \o <<":">>>>)
        actualKey == keyArrayMatch.key
        nextToken == current(tokens, position)
        deeper == nextToken.type # "undefined" /\ nextToken.indent > itemIndent
        \* key is itself an array header
        inlineMatch == Call("parseArrayHeaderString", <<key \o <<":", " ">> \o value>>)
        inlineArr == Call("parseInlineArray", <<inlineMatch>>)
        keyed == Call("parseArray", <<Call("injectHeader", <<tokens, position, token, key \o <<":">>,
                                         actualKey, keyArrayMatch>>),
                            position - 1>>)
        \* array header in the value
        arrayMatch == Call("parseArrayHeaderString", <<value>>)
        uk == Call("unescapeKey", <<key>>)
        valueArr == Call("parseInlineArray", <<arrayMatch>>)
        unkeyed == Call("parseArray", <<Call("injectHeader", <<tokens, position, token,
                                           key \o <<":", " ">> \o value, <<>>, arrayMatch>>),
                              position - 1>>)
        prim == Call("parsePrimitive", <<value>>)
        \* empty value
        nestedObj == Call("parseObject", <<tokens, position, nextToken.indent>>)
        nestedArr == Call("parseArray", <<tokens, position>>)
        nestedList == Call("parseListItems", <<tokens, position, nextToken.indent>>)
        one(k, r) == IF r.err # NoErr THEN Throw(r.err)
                     ELSE Ret(NoErr, Obj(<<<<k, r.val>>>>), r.tokens, r.position)
        more(k, r) == IF r.err # NoErr THEN Throw(r.err)
                      ELSE Call("additionalProperties", <<r.tokens, r.position, itemIndent, <<<<k, r.val>>>>>>)
        here(r) == Ret(r.err, r.val, tokens, position)
        plain == Call("parsePrimitive", <<content>>)
    IN IF fullArrayMatch.err # NoErr THEN Throw(fullArrayMatch.err)
       ELSE IF fullArrayMatch.has /\ fullArrayMatch.key = <<>> THEN here(fullArray)
       ELSE IF colonIndex # -1
       THEN IF keyArrayMatch.err # NoErr THEN Throw(keyArrayMatch.err)
            ELSE IF keyArrayMatch.has /\ keyArrayMatch.key # <<>>
            THEN IF value # <<>>
                 THEN IF inlineMatch.err # NoErr THEN Throw(inlineMatch.err)
                      ELSE IF inlineMatch.has THEN more(actualKey, here(inlineArr))
                      ELSE Call("additionalProperties", <<tokens, position, itemIndent, <<>>>>)
                 ELSE IF deeper THEN more(actualKey, keyed)
                 ELSE more(actualKey, here([err |-> NoErr, val |-> Arr(<<>>)]))
            ELSE IF arrayMatch.err # NoErr THEN Throw(arrayMatch.err)
            ELSE IF uk.err # NoErr THEN Throw(uk.err)
            ELSE IF arrayMatch.has
            THEN IF arrayMatch.length = 0
                 THEN more(uk.val, here([err |-> NoErr, val |-> Arr(<<>>)]))
                 ELSE IF arrayMatch.valuesStr # <<>> THEN more(uk.val, here(valueArr))
                 ELSE IF deeper THEN more(uk.val, unkeyed)
                 ELSE more(uk.val, here([err |-> NoErr, val |-> Arr(<<>>)]))
            ELSE IF value # <<>> THEN more(uk.val, here(prim))
            ELSE IF deeper
            THEN IF nextToken.type = "KEY" THEN one(uk.val, nestedObj)
                 ELSE IF nextToken.type = "ARRAY_HEADER" THEN one(uk.val, nestedArr)
                 ELSE IF nextToken.type = "LIST_ITEM" THEN one(uk.val, nestedList)
                 ELSE one(uk.val, here([err |-> NoErr, val |-> Obj(<<>>)]))
            ELSE one(uk.val, here([err |-> NoErr, val |-> Obj(<<>>)]))
       ELSE IF fullArrayMatch.has THEN here(fullArray)
       ELSE here(plain)

parseListItemsLoop(tokens, position, baseIndent, result) ==
    LET token == current(tokens, position)
        item == Call("parseListItem", <<tokens, position + 1, token>>)
    IN IF IsEnd(token) THEN Ret(NoErr, Arr(result), tokens, position)
       ELSE IF token.type # "LIST_ITEM" THEN Ret(NoErr, Arr(result), tokens, position)
       ELSE IF token.indent < baseIndent THEN Ret(NoErr, Arr(result), tokens, position)
       ELSE IF item.err # NoErr THEN Throw(item.err)
       ELSE Iterate("parseListItemsLoop", <<item.tokens, item.position, baseIndent,
                               Append(result, item.val)>>,
                    position, item.position)

\* Parser.parseListItems
parseListItems(tokens, position, baseIndent) ==
    Call("parseListItemsLoop", <<tokens, position, baseIndent, <<>>>>)

\* the loop of Parser.parse that does not skip an unexpected token
parseLoopNoSkip(tokens, position, result) ==
    LET token == current(tokens, position)
        arr == Call("parseArray", <<tokens, position>>)
        kv == Call("parseKeyValue", <<tokens, position + 2, token, token.indent = 0>>)
    IN IF position >= Len(tokens) \/ IsEnd(token) \/ token.indent # 0
       THEN Ret(NoErr, IF Len(result) = 0 THEN Null ELSE Obj(result), tokens, position)
       ELSE IF token.type = "ARRAY_HEADER" /\ token.arrayInfo.key # <<>>
       THEN IF arr.err # NoErr THEN Throw(arr.err)
            ELSE Iterate("parseLoop", <<arr.tokens, arr.position, Put(result, token.arrayInfo.key, arr.val)>>,
                         position, arr.position)
       ELSE IF token.type = "KEY"
       THEN IF current(tokens, position + 1).type = "COLON"
            THEN IF kv.err # NoErr THEN Throw(kv.err)
                 ELSE Iterate("parseLoop", <<kv.tokens, kv.position,
                                IF kv.bound THEN Put(result, token.value, kv.val) ELSE result>>,
                              position, kv.position)
            ELSE Iterate("parseLoop", <<tokens, position + 1, result>>, position, position + 1)
       ELSE Iterate("parseLoop", <<tokens, position, result>>, position, position)

\* the loop of Parser.parse that goes on at a token of any indent
parseLoopAnyIndent(tokens, position, result) ==
    LET token == current(tokens, position)
        arr == Call("parseArray", <<tokens, position>>)
        kv == Call("parseKeyValue", <<tokens, position + 2, token, token.indent = 0>>)
    IN IF position >= Len(tokens) \/ IsEnd(token)
       THEN Ret(NoErr, IF Len(result) = 0 THEN Null ELSE Obj(result), tokens, position)
       ELSE IF token.type = "ARRAY_HEADER" /\ token.arrayInfo.key # <<>>
       THEN IF arr.err # NoErr THEN Throw(arr.err)
            ELSE Iterate("parseLoop", <<arr.tokens, arr.position, Put(result, token.arrayInfo.key, arr.val)>>,
                         position, arr.position)
       ELSE IF token.type = "KEY"
       THEN IF current(tokens, position + 1).type = "COLON"
            THEN IF kv.err # NoErr THEN Throw(kv.err)
                 ELSE Iterate("parseLoop", <<kv.tokens, kv.position,
                                IF kv.bound THEN Put(result, token.value, kv.val) ELSE result>>,
                              position, kv.position)
            ELSE Iterate("parseLoop", <<tokens, position + 1, result>>, position, position + 1)
       ELSE Iterate("parseLoop", <<tokens, position + 1, result>>, position, position + 1)

\* the while loop of Parser.parse over the top-level entries
parseLoop(tokens, position, result) ==
    LET token == current(tokens, position)
        arr == Call("parseArray", <<tokens, position>>)
        kv == Call("parseKeyValue", <<tokens, position + 2, token, token.indent = 0>>)
    IN IF position >= Len(tokens) \/ IsEnd(token) \/ token.indent # 0
       THEN Ret(NoErr, IF Len(result) = 0 THEN Null ELSE Obj(result), tokens, position)
       ELSE IF token.type = "ARRAY_HEADER" /\ token.arrayInfo.key # <<>>
       THEN IF arr.err # NoErr THEN Throw(arr.err)
            ELSE Iterate("parseLoop", <<arr.tokens, arr.position, Put(result, token.arrayInfo.key, arr.val)>>,
                         position, arr.position)
       ELSE IF token.type = "KEY"
       THEN IF current(tokens, position + 1).type = "COLON"
            THEN IF kv.err # NoErr THEN Throw(kv.err)
                 ELSE Iterate("parseLoop", <<kv.tokens, kv.position,
                                IF kv.bound THEN Put(result, token.value, kv.val) ELSE result>>,
                              position, kv.position)
            ELSE Iterate("parseLoop", <<tokens, position + 1, result>>, position, position + 1)
       ELSE Iterate("parseLoop", <<tokens, position + 1, result>>, position, position + 1)

\* new Parser(tokens).parse()
parse(tokens) ==
    LET firstToken == current(tokens, 0)
        prim == Call("parsePrimitive", <<firstToken.value>>)
    IN IF IsEnd(firstToken) THEN Ret(NoErr, Null, tokens, 0)
       ELSE IF firstToken.type = "VALUE" THEN Ret(prim.err, prim.val, tokens, 0)
       ELSE IF firstToken.type = "ARRAY_HEADER" /\ firstToken.arrayInfo.key = <<>>
       THEN Call("parseArray", <<tokens, 0>>)
       ELSE Call("parseLoop", <<tokens, 0, <<>>>>)

\* decode(input, options): <<"ok", value>> or <<"error", kind, line>>
decode(input, options) ==
    LET scanned == Call("scan", <<input, options>>)
        parsed == Call("parse", <<scanned.tokens>>)
    IN IF Len(input) = 0 \/ Trim(input) = <<>> THEN <<"ok", Null>>
       ELSE IF scanned.err # NoErr THEN <<"error", scanned.err[1], scanned.err[2]>>
       ELSE IF parsed.err # NoErr THEN <<"error", parsed.err[1], parsed.err[2]>>
       ELSE <<"ok", parsed.val>>

\* Call(f, <<a1, ..., an>>) is the call f(a1, ..., an) of a function or method of
\* the library: every call between the functions modelled below is written this
\* way, so that they can call one another in any order
Call(f, a) ==
    CASE f = "Split" -> Split(a[1], a[2])
      [] f = "Join" -> Join(a[1], a[2])
      [] f = "ReplaceAll" -> ReplaceAll(a[1], a[2], a[3])
      [] f = "MatchTemplate" -> MatchTemplate(a[1], a[2])
      [] f = "NumToStr" -> NumToStr(a[1], a[2])
      [] f = "NumShape" -> NumShape(a[1], a[2], a[3])
      [] f = "StrToNum" -> StrToNum(a[1])
      [] f = "escapeString" -> escapeString(a[1])
      [] f = "isBooleanOrNullLiteral" -> isBooleanOrNullLiteral(a[1])
      [] f = "isNumericLike" -> isNumericLike(a[1])
      [] f = "isISOTimestamp" -> isISOTimestamp(a[1])
      [] f = "isSafeUnquoted" -> isSafeUnquoted(a[1], a[2])
      [] f = "encodeStringLiteral" -> encodeStringLiteral(a[1], a[2])
      [] f = "encodePrimitive" -> encodePrimitive(a[1], a[2])
      [] f = "isValidUnquotedKey" -> isValidUnquotedKey(a[1])
      [] f = "encodeKey" -> encodeKey(a[1])
      [] f = "encodeAndJoinPrimitives" -> encodeAndJoinPrimitives(a[1], a[2])
      [] f = "formatHeader" -> formatHeader(a[1], a[2], a[3], a[4], a[5])
      [] f = "push" -> push(a[1], a[2], a[3])
      [] f = "pushListItem" -> pushListItem(a[1], a[2], a[3])
      [] f = "encodeInlineArrayLine" -> encodeInlineArrayLine(a[1], a[2], a[3], a[4])
      [] f = "isTabularArray" -> isTabularArray(a[1], a[2])
      [] f = "extractTabularHeader" -> extractTabularHeader(a[1])
      [] f = "writeTabularRows" -> writeTabularRows(a[1], a[2], a[3], a[4])
      [] f = "encodeObject" -> encodeObject(a[1], a[2], a[3])
      [] f = "encodeKeyValuePair" -> encodeKeyValuePair(a[1], a[2], a[3], a[4])
      [] f = "encodeArrayOfArraysAsListItems" -> encodeArrayOfArraysAsListItems(a[1], a[2], a[3], a[4])
      [] f = "encodeArrayOfObjectsAsTabular" -> encodeArrayOfObjectsAsTabular(a[1], a[2], a[3], a[4], a[5])
      [] f = "encodeArray" -> encodeArray(a[1], a[2], a[3], a[4])
      [] f = "encodeMixedArrayAsListItems" -> encodeMixedArrayAsListItems(a[1], a[2], a[3], a[4])
      [] f = "encodeListItemValue" -> encodeListItemValue(a[1], a[2], a[3])
      [] f = "encodeObjectAsListItem" -> encodeObjectAsListItem(a[1], a[2], a[3])
      [] f = "encodeValue" -> encodeValue(a[1], a[2])
      [] f = "findMainColonFrom" -> findMainColonFrom(a[1], a[2], a[3], a[4])
      [] f = "findMainColon" -> findMainColon(a[1])
      [] f = "splitFrom" -> splitFrom(a[1], a[2], a[3], a[4], a[5], a[6])
      [] f = "splitByDelimiter" -> splitByDelimiter(a[1], a[2])
      [] f = "unescapeFrom" -> unescapeFrom(a[1], a[2], a[3])
      [] f = "unescapeString" -> unescapeString(a[1])
      [] f = "unescapeKey" -> unescapeKey(a[1])
      [] f = "FirstErr" -> FirstErr(a[1])
      [] f = "MatchArrayPattern" -> MatchArrayPattern(a[1])
      [] f = "getIndent" -> getIndent(a[1], a[2], a[3])
      [] f = "parseArrayHeader" -> parseArrayHeader(a[1])
      [] f = "OnlyDigitsCommasSpaces" -> OnlyDigitsCommasSpaces(a[1])
      [] f = "scanLine" -> scanLine(a[1], a[2], a[3], a[4], a[5])
      [] f = "blankLineCheck" -> blankLineCheck(a[1], a[2], a[3], a[4])
      [] f = "scanFrom" -> scanFrom(a[1], a[2], a[3], a[4], a[5], a[6])
      [] f = "scan" -> scan(a[1], a[2])
      [] f = "Assign" -> Assign(a[1], a[2])
      [] f = "parsePrimitive" -> parsePrimitive(a[1])
      [] f = "parsePrimitives" -> parsePrimitives(a[1])
      [] f = "parseArrayHeaderString" -> parseArrayHeaderString(a[1])
      [] f = "parseInlineArray" -> parseInlineArray(a[1])
      [] f = "countRows" -> countRows(a[1], a[2], a[3])
      [] f = "hasComplexNesting" -> hasComplexNesting(a[1])
      [] f = "parseKeyValue" -> parseKeyValue(a[1], a[2], a[3], a[4])
      [] f = "parseObjectLoop" -> parseObjectLoop(a[1], a[2], a[3], a[4])
      [] f = "parseObject" -> parseObject(a[1], a[2], a[3])
      [] f = "parseRows" -> parseRows(a[1], a[2], a[3], a[4], a[5])
      [] f = "parseArray" -> parseArray(a[1], a[2])
      [] f = "additionalProperties" -> additionalProperties(a[1], a[2], a[3], a[4])
      [] f = "injectHeader" -> injectHeader(a[1], a[2], a[3], a[4], a[5], a[6])
      [] f = "parseListItem" -> parseListItem(a[1], a[2], a[3])
      [] f = "parseListItemsLoop" -> parseListItemsLoop(a[1], a[2], a[3], a[4])
      [] f = "parseListItems" -> parseListItems(a[1], a[2], a[3])
      [] f = "parseLoop" -> parseLoop(a[1], a[2], a[3])
      [] f = "parse" -> parse(a[1])

----------------------------------------------------------------------------
(* INPUTS: the bounded families of values, texts and options the calls are made on *)

MaxStrLen == 2
MaxKeyLen == 2
MaxPrimLen == 3
MaxLines == 3

Strings(alphabet, n) == UNION { [1..m -> alphabet] : m \in 0..n }

\* structural equality of two JSON values: numbers by numeric value, objects by
\* the same keys bound to equal values, arrays element by element
RECURSIVE SameValue(_, _)
SameValue(a, b) ==
    IF a[1] # b[1] THEN FALSE
    ELSE IF a[1] = "arr"
    THEN /\ Len(a[2]) = Len(b[2])
         /\ \A i \in 1..Len(a[2]) : SameValue(a[2][i], b[2][i])
    ELSE IF a[1] = "obj"
    THEN /\ Len(a[2]) = Len(b[2])
         /\ \A i \in 1..Len(a[2]) :
                /\ HasKey(b, a[2][i][1])
                /\ SameValue(a[2][i][2], Get(b, a[2][i][1]))
    ELSE a = b

One == Num(1, 0)
Two == Num(2, 0)
KV(k, v) == <<Chars(k), v>>

\* the five places a scalar can stand in
Positions == {"root", "value", "inline", "cell", "item"}

\* the JSON value that has the scalar v in the given position
ValueInPosition(pos, v) ==
    CASE pos = "root" -> v
      [] pos = "value" -> Obj(<<KV("k", v)>>)
      [] pos = "inline" -> Arr(<<v, One>>)
      [] pos = "cell" -> Arr(<<Obj(<<KV("f", v), KV("g", One)>>)>>)
      [] pos = "item" -> Arr(<<v, Obj(<<KV("x", One)>>)>>)

\* the TOON text that has the literal p in the given position
TextInPosition(pos, p) ==
    CASE pos = "root" -> p
      [] pos = "value" -> Chars("k: ") \o p
      [] pos = "inline" -> Chars("a[1]: ") \o p
      [] pos = "cell" -> Chars("a[1]{f}:\n  ") \o p
      [] pos = "item" -> Chars("a[1]:\n  - ") \o p

StrAlphabet == {"a", "1", "-", ":", ",", "|", "\t", " ", "\"", "\\"}

StringPool ==
    Strings(StrAlphabet, MaxStrLen) \cup
    { Chars("true"), Chars("false"), Chars("null"), Chars("True"),
      Chars("2025-01-15T10:30:00Z"), Chars("2025-01-15T10:30:00.123"),
      Chars("10:30"), Chars("007"), Chars("-1.5"), Chars("1e5"), Chars("1.5E-3"),
      Chars("1.a"), Chars("a[0]"), Chars("{a}"), Chars("a]"), Chars("a}"),
      Chars("a\nb"), Chars("a\rb"), Chars("hello world"), Chars("x-y"),
      Chars("a.b_c"), Chars("- a"),
      Chars("\\n"), Chars("\\r"), Chars("\n"), Chars("\r\n"), Chars("a\\nb\"\t") }

KeyAlphabet == {"a", "1", "_", ".", " ", ":", ",", "\"", "\\", "["}

KeyPool ==
    Strings(KeyAlphabet, MaxKeyLen) \cup
    { Chars("user_name"), Chars("a.b"), Chars("first name"), Chars("a[1]:b"),
      Chars("a]"), Chars("{a}"), Chars("-a"), Chars("2nd"), Chars("a\nb") }

KeyValues == { One, Str(Chars("v")), Obj(<<KV("x", One)>>) }

PrimAlphabet == {"a", "n", "\"", "\\"}

\* every literal that opens with a double quote
QuotedPool == { <<"\"">> \o w : w \in Strings(PrimAlphabet, MaxPrimLen) }


LinePool ==
    { Chars("a: 1"), Chars("  b: 2"), Chars("   c: 3"), Chars("\td: 4"), <<>>,
      Chars("items[2]:"), Chars("  - x"), Chars("items[2]: x,y,z"),
      Chars("\"k\\x\": 1") }

TextPool ==
    { Chars("items[2]: a,b,c"), Chars("items[3]: a,b,c"), Chars("items[0]:"),
      Chars("t[2]{p,q}:\n  1,2"), Chars("t[1]{p,q}:\n  1,2,3"),
      Chars("t[1]{p,q}:\n  1,2"), Chars("t[1]{p,q}:\n  1,2\n  3,4"),
      Chars("items[1]:\n  - x\n  - y"), Chars("items[2]:\n  - x\n  - y"),
      Chars("a[1]:\n\n  - x\n\tb: 1"), Chars("a:\n  b:\n  c: 1"),
      Chars("[2]: 1,2"), Chars("[1]: 1,2"), Chars("a:\n\tb: 1"),
      Chars("items[#2]: a,b"), Chars("items[2|]: a|b"), Chars("\"a b\": 1"),
      Chars("a: 1\n- x\nb: 2"), Chars("a[1]:\n  - t[2]:\n      - x\n      - y"),
      Chars("a[1]:\n  - k: [2]:\n      - x\n      - y") }

\* unquoted and quoted tokens, each with the primitive its text stands for
TokenPool ==
    { <<Chars("null"), Null>>, <<Chars("true"), Bool(TRUE)>>, <<Chars("false"), Bool(FALSE)>>,
      <<Chars("0"), Num(0, 0)>>, <<Chars("42"), Num(42, 0)>>, <<Chars("-7"), Num(-7, 0)>>,
      <<Chars("3.14"), Num(314, -2)>>, <<Chars("1e5"), Num(1, 5)>>,
      <<Chars("1.5E-3"), Num(15, -4)>>, <<Chars("2e+2"), Num(2, 2)>>,
      <<Chars("7 "), Num(7, 0)>>, <<Chars("1e999"), Num(1, 999)>>,
      <<Chars("007"), Str(Chars("007"))>>, <<Chars("05"), Str(Chars("05"))>>,
      <<Chars("-01"), Str(Chars("-01"))>>, <<Chars("1."), Str(Chars("1."))>>,
      <<Chars(".5"), Str(Chars(".5"))>>, <<Chars("+1"), Str(Chars("+1"))>>,
      <<Chars("1e"), Str(Chars("1e"))>>, <<Chars("0x1"), Str(Chars("0x1"))>>,
      <<Chars("True"), Str(Chars("True"))>>, <<Chars("nul"), Str(Chars("nul"))>>,
      <<Chars("hello"), Str(Chars("hello"))>>, <<Chars("1 2"), Str(Chars("1 2"))>>,
      <<Chars("\"123\""), Str(Chars("123"))>>, <<Chars("\"true\""), Str(Chars("true"))>>,
      <<Chars("\"a\\nb\""), Str(Chars("a\nb"))>>, <<Chars("\"\""), Str(<<>>)>> }

\* the tokens of the pool whose number is beyond Number.MAX_VALUE
Overflowing == { Chars("1e999") }

\* the opening lines of a text, each with the value they stand for
HeadPool ==
    { <<Chars("a: 1"), Obj(<<KV("a", One)>>)>>,
      <<Chars("a:\n    x: 1"), Obj(<<KV("a", Obj(<<KV("x", One)>>))>>)>>,
      <<Chars("hello"), Str(Chars("hello"))>>,
      <<Chars("42"), Num(42, 0)>> }

\* lines indented below the top level
DeeperLines == { Chars("  b: 2"), Chars("  - x"), Chars("  [1]: 7"), Chars("  zzz") }

\* lines that may come later in the text
LaterLines == { Chars("c: 3"), Chars("  d: 4"), Chars("items[2]: x,y,z") }

\* the lines that may follow the opening lines: a deeper line first after a
\* key, any line first after a bare value
RestPool(head) ==
    LET first == IF isJsonPrimitive(head[2]) THEN DeeperLines \cup LaterLines ELSE DeeperLines
    IN { <<f>> : f \in first } \cup { <<f, l>> : f \in first, l \in LaterLines }

\* what may follow a line 'e:' that has no value and no body
Followers == {"end", "key", "array", "shallower"}

\* the text with the line 'e:' at the top level or inside the object p, and the
\* follower after it ("shallower" exists inside p only)
EmptyKeyText(nested, follower) ==
    IF nested
    THEN Chars("p:\n  e:") \o
         (CASE follower = "end" -> <<>>
            [] follower = "key" -> Chars("\n  b: 1")
            [] follower = "array" -> Chars("\n  items[1]: x")
            [] follower = "shallower" -> Chars("\nq: 1"))
    ELSE Chars("e:") \o
         (CASE follower = "key" -> Chars("\nb: 1")
            [] follower = "array" -> Chars("\nitems[1]: x")
            [] OTHER -> <<>>)

\* the keys of the run of lines that follows the line 'user:' in compact mode
RunKeys == <<Chars("name"), Chars("age")>>
RunLines == <<Chars("name: Alice"), Chars("age: 30")>>

\* the text 'user:' followed by the run, the n-th line of the run indented
\* with a tab when tabs[n]
CompactText(tabs) ==
    Join(<<Chars("user:")>> \o
         [n \in 1..Len(RunLines) |-> (IF tabs[n] THEN <<"\t">> ELSE <<>>) \o RunLines[n]],
         <<"\n">>)

\* texts with a blank line before, inside and after arrays
BlankTexts ==
    { Chars("name: Alice\n\nage: 30"), Chars("items[2]:\n  - x\n\n  - y"),
      Chars("items[1]:\n  - x\n\n"), Chars("items[1]:\n  - x\n\nb: 1"),
      Chars("t[2]{p,q}:\n  1,2\n\n  3,4"), Chars("t[2]{p,q}:\n  1,2\n  \n  3,4"),
      Chars("a:\n  b[1]: x\n\n  c: 1"), Chars("tags[2]: x,y\n\n  b: 1"),
      Chars("a[3]:\n  - b[1]: x\n  - c\n\n  - d"),
      Chars("users[2]:\n  - tags[1]: x\n    id: 1\n\n  - tags[1]: y\n    id: 2") }

\* the places a key can occur
KeyPlaces == {"top", "nested", "fused"}

\* the key a with an empty value at the place, directly followed by a deeper
\* line that is a bare value
BareValueText(place) ==
    CASE place = "top" -> Chars("a:\n  foo")
      [] place = "nested" -> Chars("p:\n  a:\n    foo")
      [] place = "fused" -> Chars("items[1]:\n  - a:\n      foo")

MaxListItems == 2

\* the list items written under a header, each with the value it is parsed to
ListItemPool ==
    { <<Chars("- x"), Str(Chars("x"))>>,
      <<Chars("- a: 1"), Obj(<<KV("a", One)>>)>>,
      <<Chars("- t[1]: y"), Obj(<<KV("t", Arr(<<Str(Chars("y"))>>))>>)>>,
      <<Chars("- [1]: z"), Arr(<<Str(Chars("z"))>>)>> }

\* the list-form array items[n] with the given items, one per line
ListText(n, its) ==
    Join(<<Chars("items[") \o NatToStr(n) \o Chars("]:")>> \o
         [i \in 1..Len(its) |-> Chars("  ") \o its[i][1]], <<"\n">>)

EncodeOptionSets ==
    [indent : {<<>>, <<0>>, <<1>>, <<4>>},
     delimiter : {<<>>, <<"\t">>, <<"|">>},
     lengthMarker : {<<>>, <<"#">>}]

DelimiterOptionSets ==
    [indent : {<<>>}, delimiter : {<<>>, <<"\t">>, <<"|">>}, lengthMarker : {<<>>}]

DefaultEncodeOptions == [indent |-> <<>>, delimiter |-> <<>>, lengthMarker |-> <<>>]

DefaultDecodeOptions == [strict |-> <<>>, indent |-> <<>>]

LenientDecodeOptions == [strict |-> <<FALSE>>, indent |-> <<>>]

DecodeOptionSets == [strict : {<<>>, <<FALSE>>, <<TRUE>>}, indent : {<<>>, <<3>>}]

Nested == Obj(<<KV("x", One)>>)
Row(a, b) == Obj(<<KV("id", a), KV("n", b)>>)

ValuePool ==
    { Null, Bool(TRUE), Bool(FALSE), One, Num(-15, -1), Num(12, 2),
      Str(Chars("a")), Str(Chars("hello, world")), Str(<<>>),
      Arr(<<>>), Obj(<<>>), Arr(<<One, Two>>), Arr(<<Str(Chars("a")), Null>>),
      Obj(<<KV("a", One)>>), Obj(<<KV("a", One), KV("b", Str(Chars("x y")))>>),
      Obj(<<KV("a", Nested)>>), Obj(<<KV("a", Obj(<<KV("b", Nested)>>)), KV("c", Two)>>),
      Obj(<<KV("a", Arr(<<One, Two>>))>>), Obj(<<KV("a", Arr(<<>>))>>),
      Obj(<<KV("a", Obj(<<>>))>>), Obj(<<KV("a", Obj(<<>>)), KV("b", One)>>),
      Arr(<<Row(One, Str(Chars("A"))), Row(Two, Str(Chars("B")))>>),
      Obj(<<KV("users", Arr(<<Row(One, Str(Chars("A"))), Row(Two, Null)>>)), KV("n", Two)>>),
      Arr(<<Obj(<<KV("a", One)>>), Obj(<<KV("b", Two)>>)>>),
      Arr(<<Arr(<<One, Two>>), Arr(<<Two>>)>>), Arr(<<Arr(<<>>)>>),
      Arr(<<One, Nested, Str(Chars("x"))>>), Arr(<<Arr(<<One, Arr(<<Two>>)>>)>>),
      Arr(<<Obj(<<>>), One>>), Arr(<<Obj(<<KV("a", Nested), KV("b", Two)>>)>>),
      Obj(<<KV("a", Arr(<<Nested, One>>)), KV("b", Two)>>),
      Arr(<<Obj(<<KV("a", Arr(<<One, Nested>>))>>)>>),
      Arr(<<Obj(<<KV("a", Arr(<<Obj(<<KV("a", One)>>), Obj(<<KV("b", Two)>>)>>))>>)>>),
      Arr(<<Obj(<<KV("a", Arr(<<Row(One, Two), Row(Two, One)>>)), KV("b", Arr(<<One>>))>>)>>),
      Arr(<<Obj(<<KV("a", One), KV("b", Two)>>), Obj(<<KV("b", Str(Chars("x"))), KV("a", Null)>>)>>),
      Arr(<<One, Arr(<<Obj(<<KV("a", One)>>)>>)>>), Arr(<<Obj(<<>>), Obj(<<>>)>>) }

\* the kinds of first value of an object rendered as a list item
FirstValues ==
    { One, Str(Chars("v")), Arr(<<One, Two>>), Arr(<<>>),
      Arr(<<Row(One, Two), Row(Two, One)>>), Arr(<<One, Nested>>),
      Obj(<<>>), Nested, Obj(<<KV("x", One), KV("y", Two)>>) }

LaterValues == { Two, Str(Chars("w")), Arr(<<One, Two>>), Nested }

\* an array the encoder renders in list form, whose first item is the object
\* {a: first, b: later}
ItemArray(first, later, more) ==
    Arr(<<Obj(<<KV("a", first), KV("b", later)>>)>> \o more)

\* the optional key of an array header: <<>> when the array is the root value,
\* <<k>> when the array is bound to the key k of the root object
HeaderKeys ==
    { <<>>, <<Chars("a")>>, <<Chars("user_name")>>, <<Chars("a.b")>>,
      <<Chars("first name")>>, <<Chars("2nd")>>, <<Chars("-a")>>, <<Chars("a:")>>,
      <<Chars("a\"b")>>, <<Chars("a[1]")>>, <<Chars("a,b")>> }

\* the field lists of an array header: <<>> for an array of primitives
HeaderFields ==
    { <<>>, <<Chars("id"), Chars("n")>>, <<Chars("first name"), Chars("n")>>,
      <<Chars("a,b")>>, <<Chars("a|b"), Chars("c")>> }

HeaderOptionSets ==
    [indent : {<<>>}, delimiter : {<<>>, <<"\t">>, <<"|">>}, lengthMarker : {<<>>, <<"#">>}]

\* an array of n elements that the encoder writes with the given field list
ArrayWithFields(fields, n) ==
    LET row == Obj([j \in 1..Len(fields) |-> <<fields[j], One>>])
    IN Arr([e \in 1..n |-> IF fields = <<>> THEN One ELSE row])

\* the array as the root value or bound to the key
UnderKey(key, array) == IF key = <<>> THEN array ELSE Obj(<<<<key[1], array>>>>)

----------------------------------------------------------------------------
(* STATE MACHINE: one call of encode and/or decode on a given input *)

VARIABLES
    pc,        \* "value": encode not yet called; "text": text at hand; "done": decoded
    given,     \* how the input was built: <<family, ...>>
    value,     \* the JSON value given to encode (None when decode is given a text)
    encOpts,   \* the options given to encode
    text,      \* the TOON text: encode's output, or the text given to decode
    decOpts,   \* the options given to decode
    result,    \* what decode returned or threw (None before decode has run)
    node,      \* the node that executes: "encode" or "decode" (None outside a node)
    items,     \* the node's input items (this.getInputData()), each the json of an item
    parameters,  \* the node's parameters as getNodeParameter resolves them per item
    itemIndex,   \* the loop variable i of execute
    returnData   \* the output items pushed so far

nodeVars == <<node, items, parameters, itemIndex, returnData>>

vars == <<pc, given, value, encOpts, text, decOpts, result, nodeVars>>

None == <<"none">>

Decoded == pc = "done"
Returned == result[1] = "ok"
Failed == result[1] = "error"
Lines(t) == Split(t, "\n")

\* toon = encode(value, encOpts)
Encode ==
    /\ pc = "value"
    /\ text' = encode(value, encOpts)
    /\ pc' = "text"
    /\ UNCHANGED <<given, value, encOpts, decOpts, result, nodeVars>>

\* result = decode(toon, decOpts)
Decode ==
    /\ pc = "text"
    /\ result' = decode(text, decOpts)
    /\ pc' = "done"
    /\ UNCHANGED <<given, value, encOpts, text, decOpts, nodeVars>>


\* the library is called directly, outside a node
NoNode ==
    /\ node = None
    /\ items = <<>>
    /\ parameters = <<>>
    /\ itemIndex = 0
    /\ returnData = <<>>

\* a value and its encode options are given; the output is then decoded
Init ==
    /\ NoNode
    /\ pc = "value"
    /\ text = None
    /\ result = None
    /\ decOpts \in {DefaultDecodeOptions, LenientDecodeOptions}
    /\ \/ /\ value \in ValuePool
          /\ encOpts \in EncodeOptionSets
          /\ given = <<"value">>
       \/ \E pos \in Positions, s \in StringPool :
             /\ value = ValueInPosition(pos, Str(s))
             /\ encOpts \in DelimiterOptionSets
             /\ given = <<"string", pos, s>>
       \/ \E k \in KeyPool, v \in KeyValues :
             /\ value = Obj(<<<<k, v>>>>)
             /\ encOpts = DefaultEncodeOptions
             /\ given = <<"key", k>>
       \/ \E first \in FirstValues, later \in LaterValues, more \in {<<>>, <<One>>} :
             /\ value = ItemArray(first, later, more)
             /\ encOpts = DefaultEncodeOptions
             /\ given = <<"item", first, later>>
       \/ \E key \in HeaderKeys, fields \in HeaderFields, n \in 0..2 :
             /\ fields # <<>> => n > 0
             /\ value = UnderKey(key, ArrayWithFields(fields, n))
             /\ encOpts \in HeaderOptionSets
             /\ given = <<"header", key, fields, n>>

Next == Encode \/ Decode

Spec == Init /\ [][Next]_vars

\* a text and its decode options are given
InitDec ==
    /\ NoNode
    /\ pc = "text"
    /\ value = None
    /\ encOpts = None
    /\ result = None
    /\ decOpts \in DecodeOptionSets
    /\ \/ \E n \in 1..MaxLines : \E ls \in [1..n -> LinePool] :
             /\ text = Join(ls, <<"\n">>)
             /\ given = <<"lines", ls>>
       \/ \E pos \in Positions, p \in QuotedPool :
             /\ text = TextInPosition(pos, p)
             /\ given = <<"quoted", pos, p>>
       \/ /\ text \in TextPool
          /\ given = <<"text">>
       \/ \E nested \in BOOLEAN, follower \in Followers :
             /\ text = EmptyKeyText(nested, follower)
             /\ given = <<"empty", nested, follower>>
       \/ /\ text \in BlankTexts
          /\ given = <<"blank">>
       \/ \E n \in 1..3, m \in 1..MaxListItems : \E its \in [1..m -> ListItemPool] :
             /\ text = ListText(n, its)
             /\ given = <<"list", n, its>>
       \/ \E pos \in Positions, t \in TokenPool :
             /\ text = TextInPosition(pos, t[1])
             /\ given = <<"token", pos, t>>
       \/ \E head \in HeadPool : \E rest \in RestPool(head) :
             /\ text = Join(<<head[1]>> \o rest, <<"\n">>)
             /\ given = <<"stop", head, rest>>
       \/ \E place \in KeyPlaces :
             /\ text = BareValueText(place)
             /\ given = <<"bare", place>>
       \/ \E tabs \in [1..Len(RunLines) -> BOOLEAN] :
             /\ text = CompactText(tabs)
             /\ given = <<"compact", tabs>>

NextDec == Decode

SpecDec == InitDec /\ [][NextDec]_vars

\* the texts given to decode before its value is encoded again: texts written by
\* hand and texts the encoder wrote
SourceTexts ==
    TextPool
    \cup { Join(ls, <<"\n">>) : ls \in [1..2 -> LinePool] }
    \cup { EmptyKeyText(nested, follower) : nested \in BOOLEAN, follower \in Followers }
    \cup { encode(v, DefaultEncodeOptions) : v \in ValuePool }
    \cup { Chars("\"2025-01-15T10:30:00Z\""), Chars("a[1]:\n  - \"10:30\""),
           Chars("a: \"x, y\""), Chars("\"a b\": \"true\""), Chars("a: 007") }

\* toon = encode(decode(text, {strict: false}), encOpts): the decoded value is
\* encoded again, at most twice over
Recode ==
    /\ pc = "done"
    /\ Returned
    /\ given[2] < 2
    /\ value' = result[2]
    /\ text' = encode(result[2], encOpts)
    /\ given' = <<"recoded", given[2] + 1, text>>
    /\ result' = None
    /\ pc' = "text"
    /\ UNCHANGED <<encOpts, decOpts, nodeVars>>

\* a text and the options of the encoder that will write its value again
InitRecode ==
    /\ NoNode
    /\ pc = "text"
    /\ value = None
    /\ result = None
    /\ decOpts = LenientDecodeOptions
    /\ encOpts \in EncodeOptionSets
    /\ text \in SourceTexts
    /\ given = <<"source", 0, <<>>>>

NextRecode == Decode \/ Recode

SpecRecode == InitRecode /\ [][NextRecode]_vars

----------------------------------------------------------------------------
(* NODES: ToonEncode.execute and ToonDecode.execute over a list of input items *)

MaxItems == 2

\* the json of the input items
ItemPool ==
    { Obj(<<>>), Obj(<<KV("id", One)>>),
      Obj(<<KV("id", Two), KV("toon", Str(Chars("old"))), KV("n", Nested)>>) }

OutputFields == { Chars("toon"), Chars("id") }

\* the parameters of the encode node for one item
EncodeParameters ==
    [data : { One, Arr(<<One, Two>>) },
     outputField : OutputFields,
     options : [indent : {<<>>}, delimiter : {<<>>}, lengthMarker : {<<>>, <<TRUE>>}]]

\* the parameters of the decode node for one item
DecodeParameters ==
    [toonData : { Chars("a: 1"), Chars("items[2]: x,y,z"), Chars("\td: 4") },
     outputField : OutputFields,
     options : [strict : {<<>>, <<TRUE>>}]]

\* { [outputField]: fieldValue }: the item's own fields are left out
FieldAlone(json, outputField, fieldValue) == Obj(<<<<outputField, fieldValue>>>>)

\* { ...json, [outputField]: fieldValue }
SpreadWith(json, outputField, fieldValue) == Obj(Put(json[2], outputField, fieldValue))

\* the EncodeOptions the encode node builds from its options parameter
BuildEncodeOptions(optionsData) ==
    [indent |-> IF optionsData.indent = <<>> THEN <<2>> ELSE optionsData.indent,
     delimiter |-> IF optionsData.delimiter = <<>> THEN <<",">> ELSE optionsData.delimiter,
     lengthMarker |-> IF optionsData.lengthMarker = <<TRUE>> THEN <<"#">> ELSE <<>>]

\* the DecodeOptions the decode node builds from its options parameter
BuildDecodeOptions(optionsData) ==
    [strict |-> IF optionsData.strict = <<>> THEN <<FALSE>> ELSE optionsData.strict,
     indent |-> <<>>]

\* one iteration of the loop of ToonEncode.execute
EncodeItem ==
    /\ pc = "run" /\ node = "encode"
    /\ itemIndex < Len(items)
    /\ \E toon \in {encode(parameters[itemIndex + 1].data,
                            BuildEncodeOptions(parameters[itemIndex + 1].options))} :
          returnData' = Append(returnData,
              [json |-> SpreadWith(items[itemIndex + 1],
                                   parameters[itemIndex + 1].outputField, Str(toon))])
    /\ itemIndex' = itemIndex + 1
    /\ UNCHANGED <<pc, given, value, encOpts, text, decOpts, result, node, items, parameters>>

\* one iteration of the loop of ToonDecode.execute: the error decode throws is
\* thrown again as a NodeOperationError
DecodeItem ==
    /\ pc = "run" /\ node = "decode"
    /\ itemIndex < Len(items)
    /\ \E decoded \in {decode(parameters[itemIndex + 1].toonData,
                               BuildDecodeOptions(parameters[itemIndex + 1].options))} :
          IF decoded[1] = "ok"
          THEN /\ returnData' = Append(returnData,
                      [json |-> SpreadWith(items[itemIndex + 1],
                                           parameters[itemIndex + 1].outputField, decoded[2])])
               /\ itemIndex' = itemIndex + 1
               /\ UNCHANGED <<pc, result>>
          ELSE /\ pc' = "threw"
               /\ result' = decoded
               /\ UNCHANGED <<returnData, itemIndex>>
    /\ UNCHANGED <<given, value, encOpts, text, decOpts, node, items, parameters>>

\* return [returnData]
ReturnData ==
    /\ pc = "run"
    /\ itemIndex = Len(items)
    /\ pc' = "returned"
    /\ UNCHANGED <<given, value, encOpts, text, decOpts, result, nodeVars>>

\* a node is given its input items and its parameters
InitNode ==
    /\ pc = "run"
    /\ given = <<"node">>
    /\ value = None /\ encOpts = None /\ text = None /\ decOpts = None /\ result = None
    /\ itemIndex = 0
    /\ returnData = <<>>
    /\ \E n \in 0..MaxItems :
          /\ items \in [1..n -> ItemPool]
          /\ \/ node = "encode" /\ parameters \in [1..n -> EncodeParameters]
             \/ node = "decode" /\ parameters \in [1..n -> DecodeParameters]

NextNode == EncodeItem \/ DecodeItem \/ ReturnData

SpecNode == InitNode /\ [][NextNode]_vars

----------------------------------------------------------------------------
(* CLAIMS *)

\* C1: round trip.  For every value and every encode option set, decoding the
\* encoder's output with the default decode options returns a value that is
\* structurally equal to the value that was encoded.
C1_RoundTrip ==
    (Decoded /\ decOpts = DefaultDecodeOptions) =>
        (Returned /\ SameValue(result[2], value))

\* C2: in lenient mode (strict: false) decode never fails because of a count
\* mismatch (inline, tabular rows, row cells, list items) or an indentation
\* violation (tab, non-multiple indentation, blank line inside an array).
C2_LenientNeverFailsOnCounts ==
    (Decoded /\ decOpts.strict = <<FALSE>>) =>
        ~(Failed /\ result[2] \in CountErrKinds \cup IndentErrKinds \cup {"blank-line"})

\* C3: strict defaults to false.  Decoding a text with options that leave out
\* strict gives exactly the outcome (the same value, or a failure in the same
\* cases) of decoding it with strict: false.
C3_StrictDefaultsToFalse ==
    (Decoded /\ decOpts.strict = <<>>) =>
        result = decode(text, [decOpts EXCEPT !.strict = <<FALSE>>])

\* the text opens with the header key[n] of an array named key of declared length n
Declares(t, key, n) == StartsWith(t, Chars(key) \o <<"[">> \o NatToStr(n) \o <<"]">>)

\* C4: strict-mode count law.  Whenever strict decode returns a value for a text
\* that opens with a header declaring length n for the array named key (whether
\* inline values, rows, list items or no body at all follow), the array bound to
\* that key in the value has exactly n elements.
C4_StrictCountLaw ==
    (Decoded /\ decOpts.strict = <<TRUE>> /\ Returned) =>
        \A key \in {"items", "t", "a"}, n \in 0..3 :
            Declares(text, key, n) =>
                /\ isJsonObject(result[2])
                /\ HasKey(result[2], Chars(key))
                /\ isJsonArray(Get(result[2], Chars(key)))
                /\ Len(Get(result[2], Chars(key))[2]) = n

\* the number of characters of the leading whitespace of a line
LeadingWidth(line) ==
    CHOOSE n \in 0..Len(line) :
        /\ \A i \in 1..n : line[i] \in {" ", "\t"}
        /\ n = Len(line) \/ line[n + 1] \notin {" ", "\t"}

\* a non-blank line with a tab in its leading whitespace, or with a non-zero
\* number of leading spaces that is not a multiple of k
ViolatesIndent(line, k) ==
    LET n == LeadingWidth(line)
        spaces == Cardinality({i \in 1..n : line[i] = " "})
    IN /\ Trim(line) # <<>>
       /\ \/ \E i \in 1..n : line[i] = "\t"
          \/ spaces > 0 /\ spaces % k # 0

\* the 1-based numbers of the lines of t that violate the indentation rule
Offending(t, k) == {i \in 1..Len(Lines(t)) : ViolatesIndent(Lines(t)[i], k)}

IndentationError == Failed /\ result[2] \in IndentErrKinds

\* C5 as stated: strict decode with indent k fails with an indentation error that
\* names an offending line whenever some line violates the indentation rule, and
\* raises no indentation error when no line violates it.
C5_StrictIndentationAsStated ==
    (Decoded /\ decOpts.strict = <<TRUE>>) =>
        LET off == Offending(text, scannerOptions(decOpts).indent)
        IN IF off = {} THEN ~IndentationError
           ELSE IndentationError /\ result[3] \in off

\* C5, amended: strict decode with indent k fails whenever some line violates the
\* indentation rule.  The error is the indentation error naming the first such
\* line, unless scanning the lines before it already fails (a blank line inside
\* an array, an invalid escape in a quoted key), and then it is that earlier
\* error.  When no line violates the rule, no indentation error is raised.
C5_StrictIndentation ==
    (Decoded /\ decOpts.strict = <<TRUE>>) =>
        LET off == Offending(text, scannerOptions(decOpts).indent)
            first == SetMin(off)
            before == scan(Join(SubSeq(Lines(text), 1, first - 1), <<"\n">>), decOpts).err
        IN IF off = {} THEN ~IndentationError
           ELSE IF before # NoErr THEN result = <<"error", before[1], before[2]>>
           ELSE IndentationError /\ result[3] = first

\* a text of several lines whose second line is the first offending one, and the
\* indentation error that names it
C5_Witness ==
    /\ Decoded /\ decOpts.strict = <<TRUE>>
    /\ Offending(text, scannerOptions(decOpts).indent) # {}
    /\ SetMin(Offending(text, scannerOptions(decOpts).indent)) = 2
    /\ result = <<"error", "indent-multiple", 2>>

\* a backslash in s, at or after position i, that is followed by a character
\* other than n, r, t, '"' or '\', or by nothing
RECURSIVE BadEscapeFrom(_, _)
BadEscapeFrom(s, i) ==
    IF i > Len(s) THEN FALSE
    ELSE IF s[i] # "\\" THEN BadEscapeFrom(s, i + 1)
    ELSE \/ i = Len(s)
         \/ s[i + 1] \notin {"n", "r", "t", "\"", "\\"}
         \/ BadEscapeFrom(s, i + 2)

\* a literal that starts with a double quote and is not closed by a final double
\* quote, or is a quoted string with an invalid escape or a lone final backslash
Malformed(p) ==
    /\ p[1] = "\""
    /\ \/ Len(p) < 2
       \/ p[Len(p)] # "\""
       \/ BadEscapeFrom(SubSeq(p, 2, Len(p) - 1), 1)

\* C6: in lenient and in strict mode, decode fails whenever the primitive in the
\* root, object value, inline element, tabular cell or list item position is a
\* malformed quoted literal.
C6_MalformedQuotedFails ==
    (Decoded /\ given[1] = "quoted" /\ Malformed(given[3])) => Failed

\* a lenient decode that fails on an invalid escape in a tabular cell
C6_Witness ==
    /\ Decoded /\ given[1] = "quoted" /\ given[2] = "cell"
    /\ Malformed(given[3])
    /\ decOpts.strict = <<FALSE>>
    /\ result = <<"error", "escape", 0>>

\* the encoder rendered the first element of the array as a list item
RenderedAsListItem == Len(Lines(text)) >= 2 /\ StartsWith(Lines(text)[2], Chars("  - "))

\* C7: list-item object fusion round-trips.  For an object {a: first, b: later}
\* that the encoder renders as a list item, whatever the kind of first, the
\* decoded first item is an object that binds a and b to values equal to the
\* original ones.
C7_ListItemFusion ==
    (Decoded /\ given[1] = "item" /\ decOpts = LenientDecodeOptions /\ RenderedAsListItem) =>
        /\ Returned
        /\ isJsonArray(result[2]) /\ Len(result[2][2]) >= 1
        /\ isJsonObject(result[2][2][1])
        /\ HasKey(result[2][2][1], Chars("a")) /\ HasKey(result[2][2][1], Chars("b"))
        /\ SameValue(Get(result[2][2][1], Chars("a")), given[2])
        /\ SameValue(Get(result[2][2][1], Chars("b")), given[3])

\* the delimiter the encode options select
Delimiter == IF encOpts.delimiter = <<>> THEN "," ELSE encOpts.delimiter[1]

\* C8: bare strings are unambiguous.  For a string that the encoder emits
\* unquoted under the options' delimiter, placed in the root, object value,
\* inline element, tabular cell or list item position, decoding the encoder's
\* output returns the value that was encoded: the string in its position, in
\* the same surrounding structure.
C8_BareStringsUnambiguous ==
    (Decoded /\ given[1] = "string" /\ decOpts = LenientDecodeOptions
        /\ isSafeUnquoted(given[3], Delimiter)) =>
        (Returned /\ SameValue(result[2], value))

AllDigits(s) == Len(s) >= 1 /\ \A i \in 1..Len(s) : s[i] \in DigitChars

\* a signed decimal with optional fraction and exponent, or a leading-zero integer
NumericShape(s) ==
    LET u == IF Len(s) >= 1 /\ s[1] = "-" THEN Tail(s) ELSE s
        Unsigned(x) == IF Len(x) >= 1 /\ x[1] \in {"+", "-"} THEN Tail(x) ELSE x
    IN \/ \E a \in 1..Len(u), b \in 1..Len(u) :
             /\ a <= b
             /\ AllDigits(SubSeq(u, 1, a))
             /\ a = b \/ (u[a + 1] = "." /\ AllDigits(SubSeq(u, a + 2, b)))
             /\ b = Len(u)
                \/ (u[b + 1] \in {"e", "E"} /\ AllDigits(Unsigned(SubSeq(u, b + 2, Len(u)))))
       \/ (Len(s) >= 2 /\ s[1] = "0" /\ AllDigits(Tail(s)))

\* the eight conditions under which a string is written without quotes
WrittenBare(s, d) ==
    /\ s # <<>>
    /\ s = Trim(s)
    /\ s \notin {Chars("true"), Chars("false"), Chars("null")}
    /\ ~NumericShape(s)
    /\ (\E i \in 1..Len(s) : s[i] = ":") => isISOTimestamp(s)
    /\ \A i \in 1..Len(s) : s[i] \notin {"\"", "\\", "[", "]", "{", "}", "\n", "\r", "\t"}
    /\ \A i \in 1..Len(s) : s[i] # d
    /\ s[1] # "-"

\* the escape set applied to one character
EscapedChar(c) ==
    CASE c = "\\" -> <<"\\", "\\">>
      [] c = "\"" -> <<"\\", "\"">>
      [] c = "\n" -> <<"\\", "n">>
      [] c = "\r" -> <<"\\", "r">>
      [] c = "\t" -> <<"\\", "t">>
      [] OTHER -> <<c>>

Quoted(s) == <<"\"">> \o Flatten([i \in 1..Len(s) |-> EscapedChar(s[i])]) \o <<"\"">>

\* the literal the quoting law prescribes for the string s under delimiter d
Literal(s, d) == IF WrittenBare(s, d) THEN s ELSE Quoted(s)

\* the delimiter as a header shows it: nothing for the comma
Shown(d) == IF d = "," THEN <<>> ELSE <<d>>

\* the output for the value that has the literal lit in the given position
OutputInPosition(pos, lit, d) ==
    CASE pos = "root" -> lit
      [] pos = "value" -> Chars("k: ") \o lit
      [] pos = "inline" -> Chars("[2") \o Shown(d) \o Chars("]: ") \o lit \o <<d, "1">>
      [] pos = "cell" -> Chars("[1") \o Shown(d) \o Chars("]{f") \o <<d>> \o Chars("g}:\n  ")
                            \o lit \o <<d, "1">>
      [] pos = "item" -> Chars("[2") \o Shown(d) \o Chars("]:\n  - ") \o lit \o Chars("\n  - x: 1")

\* C9: quoting law.  In every position the encoder writes a string scalar bare
\* exactly when the eight conditions hold for it under the options' delimiter,
\* and otherwise double-quoted with the escape set applied.
C9_QuotingLaw ==
    (pc # "value" /\ given[1] = "string") =>
        text = OutputInPosition(given[2], Literal(given[3], Delimiter), Delimiter)

\* a string that is bare under the comma but holds the active delimiter '|', so
\* that it is written quoted in a tabular cell
C9_Witness ==
    /\ pc = "text" /\ given[1] = "string" /\ given[2] = "cell"
    /\ given[3] = <<"a", "|">>
    /\ Delimiter = "|"
    /\ text = Chars("[1|]{f|g}:\n  \"a|\"|1")

\* a key of the shape [A-Za-z_][A-Za-z0-9_.]*
BareKeyShape(k) ==
    /\ k # <<>>
    /\ k[1] \in LetterChars \cup {"_"}
    /\ \A i \in 2..Len(k) : k[i] \in LetterChars \cup DigitChars \cup {"_", "."}

\* C10: keys round-trip.  For a key bound to a primitive or to a nested object,
\* the encoder writes the key bare iff it has the bare key shape and otherwise
\* double-quoted and escaped, and decoding the output returns an object that
\* binds exactly that key to the same value.
C10_KeysRoundTrip ==
    (Decoded /\ given[1] = "key" /\ decOpts = LenientDecodeOptions) =>
        /\ StartsWith(text, (IF BareKeyShape(given[2]) THEN given[2] ELSE Quoted(given[2])) \o <<":">>)
        /\ Returned
        /\ SameValue(result[2], value)

\* the object that holds the key e of an "empty" text, in the decoded value
Holder == IF given[2] THEN Get(result[2], <<"p">>) ELSE result[2]

\* C11: a line 'key:' with no inline value and no deeper-indented body decodes
\* to that key bound to the empty object, whatever follows it (end of input, a
\* sibling key or a sibling keyed array header at the same indent, a line at a
\* shallower indent), at the top level and inside a nested object.
C11_EmptyKeyIsEmptyObject ==
    (Decoded /\ given[1] = "empty" /\ decOpts = LenientDecodeOptions) =>
        /\ Returned
        /\ isJsonObject(result[2])
        /\ given[2] => (HasKey(result[2], <<"p">>) /\ isJsonObject(Holder))
        /\ HasKey(Holder, <<"e">>)
        /\ Get(Holder, <<"e">>) = Obj(<<>>)

RECURSIVE ArrayLengths(_)
\* the lengths of the arrays that occur in v, in document order
ArrayLengths(v) ==
    IF isJsonArray(v)
    THEN <<Len(v[2])>> \o Flatten([i \in 1..Len(v[2]) |-> ArrayLengths(v[2][i])])
    ELSE IF isJsonObject(v)
    THEN Flatten([i \in 1..Len(v[2]) |-> ArrayLengths(v[2][i][2])])
    ELSE <<>>

\* the integer in the bracket of the header on the line l (keys and strings of
\* the values encoded hold no bracket, so a '[' opens a header's bracket)
HeaderLength(l) ==
    LET open == SetMin({i \in 1..Len(l) : l[i] = "["})
        from == IF open < Len(l) /\ l[open + 1] = "#" THEN open + 2 ELSE open + 1
    IN StrToNat(SubSeq(l, from, SkipDigits(l, from) - 1))

\* the lengths in the headers of the text t, in line order
HeaderLengths(t) ==
    LET ls == Lines(t)
        Of(l) == IF Includes(l, "[") THEN <<HeaderLength(l)>> ELSE <<>>
    IN Flatten([i \in 1..Len(ls) |-> Of(ls[i])])

Count(s, n) == Cardinality({i \in 1..Len(s) : s[i] = n})

\* C12: length law.  For every array of length N that occurs anywhere in the
\* input (root, object value, element of another array at any depth, first or
\* later value of a list-item object) the output holds a header whose bracket
\* holds N: for each N there are at least as many headers with N as arrays of
\* length N.
C12_LengthLaw ==
    (pc # "value" /\ given[1] \in {"value", "item"}) =>
        \A i \in 1..Len(ArrayLengths(value)) :
            LET n == ArrayLengths(value)[i]
            IN Count(ArrayLengths(value), n) <= Count(HeaderLengths(text), n)

\* C13: for every input value and every option set, no line of the encoder's
\* output ends with a space and the output does not end with a newline.
C13_NoTrailingWhitespace ==
    (pc # "value") =>
        /\ \A i \in 1..Len(Lines(text)) : ~EndsWith(Lines(text)[i], <<" ">>)
        /\ ~EndsWith(text, <<"\n">>)

\* an empty object as a list item is the marker alone, and an empty array under
\* a key is its header alone
C13_Witness ==
    /\ pc = "text"
    /\ value = Arr(<<Obj(<<>>), One>>)
    /\ encOpts = DefaultEncodeOptions
    /\ text = Chars("[2]:\n  -\n  - 1")

\* C14: idempotence.  For every text s that lenient decode accepts and every
\* encode option set, with t = encode(decode(s, {strict: false}), opts), lenient
\* decode accepts t and encoding its value again with the same options yields
\* exactly t.
C14_Idempotence ==
    (given[1] = "recoded") =>
        /\ (pc = "done" /\ given[2] = 1) => Returned
        /\ (given[2] = 2) => text = given[3]

\* the tabs in the leading whitespace of a line
LeadingTabs(line) == {i \in 1..LeadingWidth(line) : line[i] = "\t"}

\* the indent column count of a line when a tab stands for 4 columns
Columns(line) ==
    LeadingWidth(line) - Cardinality(LeadingTabs(line)) + 4 * Cardinality(LeadingTabs(line))

\* C15: in lenient mode every tab in a line's leading whitespace adds 4 to the
\* line's indent column count, every space adds 1, and the tokens of a line
\* with a tab in its leading whitespace carry hadTabIndent = true.
C15_TabIsFourColumns ==
    (Decoded /\ decOpts.strict = <<FALSE>>) =>
        LET scanned == scan(text, decOpts)
        IN scanned.err = NoErr =>
              \A n \in 1..Len(scanned.tokens) :
                  LET token == scanned.tokens[n]
                      line == Lines(text)[token.line + 1]
                  IN token.type # "EOF" =>
                        /\ token.indent = Columns(line)
                        /\ token.hadTabIndent = (LeadingTabs(line) # {})

\* the value the node binds to the output field of the n-th item
FieldValue(n) ==
    IF node = "encode"
    THEN Str(encode(parameters[n].data, BuildEncodeOptions(parameters[n].options)))
    ELSE decode(parameters[n].toonData, BuildDecodeOptions(parameters[n].options))[2]

\* C16: node execute.  When the codec succeeds on every input item, execute
\* returns exactly one output item per input item, in input order, and the json
\* of each output item is the json of its input item with only the field named
\* by outputField added or overwritten with the encoded string (for the decode
\* node: the decoded value); every other field is unchanged.
C16_NodeFrame ==
    (pc = "returned") =>
        /\ Len(returnData) = Len(items)
        /\ \A n \in 1..Len(items) :
              LET before == items[n]
                  after == returnData[n].json
                  field == parameters[n].outputField
              IN /\ isJsonObject(after)
                 /\ HasKey(after, field) /\ Get(after, field) = FieldValue(n)
                 /\ \A k \in 1..Len(before[2]) :
                       before[2][k][1] # field =>
                          /\ HasKey(after, before[2][k][1])
                          /\ Get(after, before[2][k][1]) = before[2][k][2]
                 /\ \A k \in 1..Len(after[2]) :
                       after[2][k][1] = field \/ HasKey(before, after[2][k][1])
                 /\ \A j, k \in 1..Len(after[2]) : after[2][j][1] = after[2][k][1] => j = k

\* two items encoded: the first has no field toon and gains it, the second has
\* one and it is overwritten, its other fields kept
C16_Witness ==
    /\ pc = "returned" /\ node = "encode"
    /\ Len(items) = 2
    /\ items[1] = Obj(<<KV("id", One)>>)
    /\ HasKey(items[2], Chars("toon"))
    /\ parameters[1].outputField = Chars("toon") /\ parameters[2].outputField = Chars("toon")
    /\ parameters[2].data = Arr(<<One, Two>>) /\ parameters[2].options.lengthMarker = <<TRUE>>
    /\ returnData[1].json = Obj(<<KV("id", One), KV("toon", Str(Chars("1")))>>)
    /\ returnData[2].json =
          Obj(<<KV("id", Two), KV("toon", Str(Chars("[#2]: 1,2"))), KV("n", Nested)>>)

\* the indent size the encode options select
IndentSize == IF encOpts.indent = <<>> THEN 2 ELSE encOpts.indent[1]

\* the line l is the header of an array in list form: a bracket with a length
\* of at least 1, no field list and no inline values
IsListHeader(l) ==
    /\ Includes(l, "[")
    /\ EndsWith(l, <<"]", ":">>)
    /\ HeaderLength(l) > 0

\* the lines of ls that belong to the header at line h: those before the next
\* line that is indented no deeper than the header
Body(ls, h) ==
    LET width == LeadingWidth(ls[h])
        Ends == {j \in (h + 1)..Len(ls) : LeadingWidth(ls[j]) <= width}
        last == IF Ends = {} THEN Len(ls) ELSE SetMin(Ends) - 1
    IN (h + 1)..last

\* the list items of the header at line h: the lines of its body one level
\* deeper than the header that open with the list item marker
ListItems(ls, h) ==
    {j \in Body(ls, h) :
        /\ LeadingWidth(ls[j]) = LeadingWidth(ls[h]) + IndentSize
        /\ LET rest == SubSeq(ls[j], LeadingWidth(ls[j]) + 1, Len(ls[j]))
           IN StartsWith(rest, LIST_ITEM_PREFIX) \/ rest = LIST_ITEM_MARKER}

\* C17: list form emits exactly N items.  Whenever the encoder writes an array
\* of length N in list form (at the root, under a key, or as the first value of
\* a list-item object), the header line is followed by exactly N list items at
\* the header's depth + 1, one per element: no element is omitted.
C17_ListFormEmitsAllItems ==
    (pc # "value" /\ given[1] \in {"value", "item"} /\ IndentSize > 0) =>
        \A h \in 1..Len(Lines(text)) :
            IsListHeader(Lines(text)[h]) =>
                Cardinality(ListItems(Lines(text), h)) = HeaderLength(Lines(text)[h])

\* the first token the scanner yields for the text
FirstToken == scan(text, LenientDecodeOptions).tokens[1]

\* C18: shared header grammar.  For every optional key (bare or needing
\* quotes), length, delimiter, length-marker setting and optional field list, the
\* header line the encoder writes is classified by the scanner as ARRAY_HEADER
\* and parsed back to the same key (unquoted and unescaped), the same length,
\* the same delimiter and the same field names in the same order.
C18_SharedHeaderGrammar ==
    (pc # "value" /\ given[1] = "header") =>
        /\ scan(text, LenientDecodeOptions).err = NoErr
        /\ FirstToken.type = "ARRAY_HEADER"
        /\ FirstToken.arrayInfo.has
        /\ FirstToken.arrayInfo.key = (IF given[2] = <<>> THEN <<>> ELSE given[2][1])
        /\ FirstToken.arrayInfo.length = given[4]
        /\ FirstToken.arrayInfo.delimiter = Delimiter
        /\ FirstToken.arrayInfo.fields = given[3]

\* what stands between the brackets of the header on the line l
BracketContent(l) ==
    LET open == SetMin({i \in 1..Len(l) : l[i] = "["})
        close == SetMin({i \in open..Len(l) : l[i] = "]"})
    IN SubSeq(l, open + 1, close - 1)

\* C19: every array header the encoder writes, in every position (root, object
\* value, list item, first key of a list-item object in tabular and in list
\* form), reflects the options: its bracket holds '#' before the length iff
\* lengthMarker is '#', and the delimiter after the length iff the delimiter is
\* tab or '|'.
C19_HeadersReflectOptions ==
    (pc # "value" /\ given[1] \in {"value", "item"}) =>
        \A h \in 1..Len(Lines(text)) :
            LET l == Lines(text)[h]
            IN Includes(l, "[") =>
                  BracketContent(l) =
                      encOpts.lengthMarker \o NatToStr(HeaderLength(l)) \o Shown(Delimiter)

\* the array a meets the conditions of the tabular form: at least one element,
\* every element an object with the key set of the first, every value primitive
Uniform(a) ==
    /\ isJsonArray(a)
    /\ Len(a[2]) >= 1
    /\ \A e \in 1..Len(a[2]) :
          /\ isJsonObject(a[2][e])
          /\ {a[2][e][2][j][1] : j \in 1..Len(a[2][e][2])}
                = {a[2][1][2][j][1] : j \in 1..Len(a[2][1][2])}
          /\ \A j \in 1..Len(a[2][e][2]) : isJsonPrimitive(a[2][e][2][j][2])

RECURSIVE UniformArrays(_)
\* the number of arrays in v that meet the conditions of the tabular form
UniformArrays(v) ==
    IF isJsonArray(v)
    THEN (IF Uniform(v) THEN 1 ELSE 0)
         + Len(Flatten([e \in 1..Len(v[2]) |-> [c \in 1..UniformArrays(v[2][e]) |-> c]]))
    ELSE IF isJsonObject(v)
    THEN Len(Flatten([e \in 1..Len(v[2]) |-> [c \in 1..UniformArrays(v[2][e][2]) |-> c]]))
    ELSE 0

\* the headers with a field list in the text t (the keys and strings of the
\* values encoded hold no brace)
TabularHeaders(t) == {h \in 1..Len(Lines(t)) : Includes(Lines(t)[h], "{")}

\* the tabular form of the root array a: the header with the keys of the first
\* element, then one row per element with its values in that key order
Table(a) ==
    LET keys == ObjectKeys(a[2][1])
        header == <<"[">> \o encOpts.lengthMarker \o NatToStr(Len(a[2])) \o Shown(Delimiter)
                  \o <<"]", "{">> \o Join(keys, <<Delimiter>>) \o <<"}", ":">>
        Cell(e, j) == encodePrimitive(Get(a[2][e], keys[j]), Delimiter)
        Line(e) == Repeat(<<" ">>, IndentSize)
                   \o Join([j \in 1..Len(keys) |-> Cell(e, j)], <<Delimiter>>)
    IN Join(<<header>> \o [e \in 1..Len(a[2]) |-> Line(e)], <<"\n">>)

\* C20: tabular shape selection.  The encoder writes an array in tabular form
\* (a header with a field list, then one row per element) exactly when every
\* element is an object, there is at least one element, every element has the
\* key set of the first and every value is primitive: the text holds as many
\* headers with a field list as the value holds such arrays, and such an array
\* at the root is written as its table, rows in the first element's key order.
C20_TabularShapeSelection ==
    (pc # "value" /\ given[1] \in {"value", "item"}) =>
        /\ Cardinality(TabularHeaders(text)) = UniformArrays(value)
        /\ Uniform(value) => text = Table(value)

\* C21: compact-mode rule.  When the key 'user' at indent 0 has an empty value,
\* the run of indent-0 key lines after it is decoded as the children of user,
\* except that a key line whose indentation held a tab is never a child of
\* user: it is a sibling (a key of the root object), wherever in the run it is.
C21_CompactMode ==
    (Decoded /\ given[1] = "compact" /\ decOpts = LenientDecodeOptions) =>
        /\ Returned
        /\ isJsonObject(result[2])
        /\ HasKey(result[2], Chars("user"))
        /\ isJsonObject(Get(result[2], Chars("user")))
        /\ \A n \in 1..Len(RunKeys) :
              given[2][n] =>
                 /\ HasKey(result[2], RunKeys[n])
                 /\ ~HasKey(Get(result[2], Chars("user")), RunKeys[n])
        /\ (\A n \in 1..Len(RunKeys) : ~given[2][n]) =>
              result[2] = Obj(<<KV("user", Obj(<<KV("name", Str(Chars("Alice"))),
                                                 KV("age", Num(30, 0))>>))>>)

\* the line holds an array header (the texts hold no bracket anywhere else)
HoldsHeader(l) == Includes(l, "[")

IsBlank(l) == Trim(l) = <<>>

\* the blank line b of ls lies inside the array whose header is the line h: no
\* line between them is indented at or below the header, and the next
\* non-blank line is indented deeper than the header
BlankInside(ls, h, b) ==
    /\ h < b
    /\ HoldsHeader(ls[h]) /\ IsBlank(ls[b])
    /\ \A j \in (h + 1)..(b - 1) :
          IsBlank(ls[j]) \/ LeadingWidth(ls[j]) > LeadingWidth(ls[h])
    /\ \E j \in (b + 1)..Len(ls) :
          /\ ~IsBlank(ls[j])
          /\ \A m \in (b + 1)..(j - 1) : IsBlank(ls[m])
          /\ LeadingWidth(ls[j]) > LeadingWidth(ls[h])

\* some blank line of the text lies inside an array
BlankInsideArray(t) ==
    \E h, b \in 1..Len(Lines(t)) : BlankInside(Lines(t), h, b)

\* C22: strict-mode blank-line rule.  Strict decode fails with the blank-line
\* error exactly when a blank line lies after an array header line, before any
\* later line indented at or below that header, and the next non-blank line is
\* indented deeper than the header (an indentation or escape error of the text
\* may come first); in lenient mode no blank line is an error.
C22_StrictBlankLine ==
    Decoded =>
        /\ (decOpts.strict = <<TRUE>> /\ BlankInsideArray(text)) =>
              /\ Failed
              /\ result[2] \in {"blank-line", "escape"} \cup IndentErrKinds
        /\ (decOpts.strict = <<TRUE>> /\ Failed /\ result[2] = "blank-line") =>
              BlankInsideArray(text)
        /\ (decOpts.strict = <<FALSE>>) => ~(Failed /\ result[2] = "blank-line")

\* C23: missing-colon detection.  Whenever a key with an empty value is
\* directly followed by a line at greater indent that is a bare value (no
\* colon), decode fails with the missing-colon error, in both modes and at
\* every place a key can occur (top level, nested object, key fused onto a
\* list item).
C23_MissingColon ==
    (Decoded /\ given[1] = "bare" /\ decOpts.indent = <<>>) =>
        /\ Failed
        /\ result[2] = "missing-colon"

\* some item written is an object with an array-valued property
HoldsArrayProperty(its) ==
    \E i \in 1..Len(its) :
        isJsonObject(its[i][2]) /\ \E j \in 1..Len(its[i][2][2]) : isJsonArray(its[i][2][2][j][2])

\* C24: list-length carve-out.  For a list-form array with declared length N,
\* decode raises the list-length error iff the number of parsed items differs
\* from N and no parsed item is an object with an array-valued property; when
\* some item is such an object any item count is accepted and the items are
\* returned.
C24_ListLengthCarveOut ==
    (Decoded /\ given[1] = "list" /\ ~(Failed /\ result[2] \in IndentErrKinds)) =>
        IF Len(given[3]) # given[2] /\ ~HoldsArrayProperty(given[3])
        THEN Failed /\ result[2] = "list-length"
        ELSE /\ Returned
             /\ result[2] = Obj(<<KV("items", Arr([i \in 1..Len(given[3]) |-> given[3][i][2]]))>>)

\* one item for a declared length of 2, accepted because the item is an object
\* with an array-valued property
C24_Witness ==
    /\ Decoded /\ given[1] = "list"
    /\ text = Chars("items[2]:\n  - t[1]: y")
    /\ result = <<"ok", Obj(<<KV("items", Arr(<<Obj(<<KV("t", Arr(<<Str(Chars("y"))>>))>>)>>))>>)>>

\* the array is written in tabular form
IsTable(a) == Uniform(a) /\ Len(a[2][1][2]) >= 1

RECURSIVE ObjectDepths(_, _), ArrayDepths(_, _), ItemDepths(_, _)
\* the structural depths of the lines of an object whose keys are at depth d:
\* a key's line at d, the children of the key at d + 1
ObjectDepths(o, d) ==
    LET Of(v) == IF isJsonArray(v) THEN ArrayDepths(v, d)
                 ELSE IF isJsonObject(v) THEN <<d>> \o ObjectDepths(v, d + 1)
                 ELSE <<d>>
    IN Flatten([n \in 1..Len(o[2]) |-> Of(o[2][n][2])])

\* the depths of the lines of an array whose header is at depth d: the header
\* at d, its tabular rows and its list items at d + 1
ArrayDepths(a, d) ==
    IF isArrayOfPrimitives(a) THEN <<d>>
    ELSE IF IsTable(a) THEN <<d>> \o [n \in 1..Len(a[2]) |-> d + 1]
    ELSE <<d>> \o Flatten([n \in 1..Len(a[2]) |-> ItemDepths(a[2][n], d + 1)])

\* the depths of the lines of a list item whose '- ' line is at depth d: the
\* body of a non-empty object that is the first value at d + 2, the remaining
\* keys at d + 1 (an element the encoder does not write has no line)
ItemDepths(v, d) ==
    IF isJsonPrimitive(v) THEN <<d>>
    ELSE IF isJsonArray(v) THEN (IF isArrayOfPrimitives(v) THEN <<d>> ELSE <<>>)
    ELSE IF Len(v[2]) = 0 THEN <<d>>
    ELSE LET first == v[2][1][2]
         IN (IF isJsonArray(first) THEN ArrayDepths(first, d)
             ELSE IF isJsonObject(first) THEN <<d>> \o ObjectDepths(first, d + 2)
             ELSE <<d>>)
            \o ObjectDepths(Obj(Tail(v[2])), d + 1)

\* the depths of the lines of the output for the root value v
Depths(v) ==
    IF isJsonArray(v) THEN ArrayDepths(v, 0)
    ELSE IF isJsonObject(v) THEN ObjectDepths(v, 0)
    ELSE <<0>>

\* C25: encoder indentation.  Every output line starts with exactly depth x
\* indent spaces, depth being the line's structural depth: 0 at the root,
\* children of a key at d + 1, tabular rows and list items under a header at d
\* at d + 1, the remaining keys of a list-item object at d + 1 and the body of
\* a nested object that is the first value of a list item at d + 2.
C25_EncoderIndentation ==
    (pc # "value" /\ given[1] # "recoded" /\ text # <<>>) =>
        /\ Len(Lines(text)) = Len(Depths(value))
        /\ \A n \in 1..Len(Lines(text)) :
              LeadingWidth(Lines(text)[n]) = Depths(value)[n] * IndentSize

\* a list-item object whose first value is a nested object, with indent 4: the
\* body at depth 3, the remaining key at depth 2
C25_Witness ==
    /\ pc = "text"
    /\ value = Arr(<<Obj(<<KV("a", Nested), KV("b", Two)>>)>>)
    /\ encOpts.indent = <<4>> /\ encOpts.delimiter = <<>> /\ encOpts.lengthMarker = <<>>
    /\ text = Chars("[1]:\n    - a:\n            x: 1\n        b: 2")

\* the value of the text that has a token standing for v in the given position
ValueOfText(pos, v) ==
    CASE pos = "root" -> v
      [] pos = "value" -> Obj(<<KV("k", v)>>)
      [] pos = "inline" -> Obj(<<KV("a", Arr(<<v>>))>>)
      [] pos = "cell" -> Obj(<<KV("a", Arr(<<Obj(<<KV("f", v)>>)>>))>>)
      [] pos = "item" -> Obj(<<KV("a", Arr(<<v>>))>>)

\* C26: primitive parsing order.  A trimmed token is null, true or false when
\* it is exactly that literal; otherwise a number iff it matches
\* -?(0|[1-9]digits)(.digits)?([eE][+-]?digits)?; otherwise, opening with a
\* double quote, the unescaped content between the quotes; otherwise the token
\* itself as a string.
C26_PrimitiveOrder ==
    (Decoded /\ given[1] = "token" /\ ~(Failed /\ result[2] \in IndentErrKinds)) =>
        /\ Returned
        /\ result[2] = ValueOfText(given[2], given[3][2])

\* C26 as the code has it: a token of the number shape whose number is not
\* finite stays a string
C26_PrimitiveOrderFinite ==
    (Decoded /\ given[1] = "token" /\ ~(Failed /\ result[2] \in IndentErrKinds)) =>
        /\ Returned
        /\ result[2] = ValueOfText(given[2],
                          IF given[3][1] \in Overflowing THEN Str(given[3][1]) ELSE given[3][2])

\* 007 as a cell of a table is the string 007
C26_Witness ==
    /\ Decoded /\ given[1] = "token" /\ given[2] = "cell"
    /\ given[3][1] = Chars("007")
    /\ result = <<"ok", Obj(<<KV("a", Arr(<<Obj(<<KV("f", Str(Chars("007")))>>)>>))>>)>>

\* the decode options with strict: false and the same indent
Lenient(options) == [options EXCEPT !.strict = <<FALSE>>]

\* strict is true in the options, given or by default
IsStrict(options) == options.strict \in {<<>>, <<TRUE>>}

\* C27: strict mode only adds errors.  If decode(text, {strict: true}) returns
\* a value without error, decode(text, {strict: false}) with the same indent
\* option returns the same value.
C27_StrictOnlyAddsErrors ==
    (Decoded /\ IsStrict(decOpts) /\ Returned) =>
        decode(text, Lenient(decOpts)) = result

\* a list array with a nested body decodes in strict mode
C27_Witness ==
    /\ Decoded /\ decOpts.strict = <<TRUE>> /\ decOpts.indent = <<>>
    /\ text = Chars("items[2]:\n  - a: 1\n  - t[1]: y")
    /\ Returned

\* C28: parser termination.  For every token stream the scanner produces, parse
\* ends with a value or an error: every iteration of the top-level loop, the
\* object loop, the tabular-row loop and the list-item loop leaves the loop or
\* moves the token position forward, also when a list item steps the position
\* back by one to put an ARRAY_HEADER token before the array parser is called.
C28_ParserTerminates ==
    Decoded => /\ Returned \/ Failed
               /\ ~(Failed /\ result[2] = "diverges")

\* a list item that steps back to put a header for the list below it
C28_Witness ==
    /\ Decoded
    /\ text = Chars("a[1]:\n  - t[2]:\n      - x\n      - y")
    /\ decOpts.strict = <<FALSE>>
    /\ result = <<"ok", Obj(<<KV("a", Arr(<<Obj(<<KV("t", Arr(<<Str(Chars("x")), Str(Chars("y"))>>))>>)>>))>>)>>

RECURSIVE RawQuote(_, _)
\* from index i on, e has a double quote that no backslash escapes
RawQuote(e, i) ==
    IF i > Len(e) THEN FALSE
    ELSE IF e[i] = "\\" THEN RawQuote(e, i + 2)
    ELSE e[i] = "\"" \/ RawQuote(e, i + 1)

\* C29: escape round trip.  For every string s over backslash, double quote,
\* newline, carriage return, tab and ordinary characters, unescapeString of
\* escapeString(s) returns s without error, and escapeString(s) has no raw
\* double quote, newline, carriage return or tab.
C29_EscapeRoundTrip ==
    (pc # "value" /\ given[1] = "string") =>
        /\ unescapeString(escapeString(given[3])) = [err |-> NoErr, val |-> given[3]]
        /\ ~RawQuote(escapeString(given[3]), 1)
        /\ \A i \in 1..Len(escapeString(given[3])) :
              escapeString(given[3])[i] \notin {"\n", "\r", "\t"}

\* a backslash followed by the letter n, written as a root string
C29_Witness ==
    /\ pc = "text" /\ given[1] = "string" /\ given[2] = "root"
    /\ given[3] = Chars("\\n")
    /\ text = Chars("\"\\\\n\"")

\* C30: top-level parsing stops silently.  When scanning succeeds, the
\* top-level loop ends at the first token it reaches whose indent is not 0, and
\* a first token that is a bare VALUE is returned at once; decode returns the
\* value built so far without error and the remaining lines have no effect, in
\* lenient and in strict mode.
C30_TopLevelStopsSilently ==
    (Decoded /\ given[1] = "stop" /\ scan(text, decOpts).err = NoErr) =>
        /\ Returned
        /\ result[2] = given[2][2]

\* in strict mode the deeper line 'b: 2' after 'a: 1' and the line after it
\* are left out of the value
C30_Witness ==
    /\ Decoded /\ given[1] = "stop"
    /\ decOpts.strict = <<TRUE>> /\ decOpts.indent = <<>>
    /\ text = Chars("a: 1\n  b: 2\nc: 3")
    /\ result = <<"ok", Obj(<<KV("a", One)>>)>>

====
